---- MODULE Spec2Model ----
(***************************************************************************)
(* ThinkOnWikiBenchmark: the run task of main.py (start_run /              *)
(* run_with_error_handling / stop_run), BenchmarkOrchestrator.run_benchmark *)
(* and _run_single_model_benchmark, with the page cache of WikipediaClient *)
(* and the files written by ArchiveManager.                                *)
(*                                                                         *)
(* One run is modelled.  The awaits of the run task at which a stop        *)
(* request can interleave with a different effect are the values of pc;    *)
(* consecutive awaits between which the stop flag is not read are one      *)
(* step.  events is the sequence of broadcasts made on the run's topic.    *)
(***************************************************************************)
EXTENDS Integers, Sequences, FiniteSets, TLC

(***************************************************************************)
(* Bounds of the model.                                                    *)
(***************************************************************************)
MaxSteps == 3
MaxStepsTwoModels == 1
MaxHallucinationRetries == 2
MaxLoops == 2
MaxStops == 1
MaxStepsTwoStops == 0
MaxStepsPingPong == 6
MaxStepsShared == 1
MaxStepsLive == 1
MaxStepsTwoSockets == 0

(***************************************************************************)
(* Program constants.                                                      *)
(***************************************************************************)
HistoryMaxLen == 5
DefaultMaxLoops == 3

NULL == "NULL"
PARSING_FAILED == "PARSING_FAILED"
RunId == "r1"

(***************************************************************************)
(* The environment: a small Wikipedia with the pages A, Bb and Z.  "Ghost" *)
(* is linked from A but missing; Z has no outgoing link.                   *)
(***************************************************************************)
WikiPages == {"A", "Bb", "Z"}

WikiExists(title) == title \in WikiPages

WikiLinks(title) ==
    CASE title = "A" -> <<"Bb", "Ghost", "Bb">>
      [] title = "Bb" -> <<"A", "Z">>
      [] OTHER -> <<>>

\* str.lower() on the titles that occur
Lower(s) ==
    CASE s = "A" -> "a"
      [] s = "Bb" -> "bb"
      [] s = "Ghost" -> "ghost"
      [] s = "Z" -> "z"
      [] OTHER -> s

\* f"CONCEPT_{i:02d}"
ConceptId(i) ==
    CASE i = 0 -> "CONCEPT_00"
      [] i = 1 -> "CONCEPT_01"
      [] i = 2 -> "CONCEPT_02"
      [] OTHER -> "CONCEPT_03"

\* a concept id that no page of this Wikipedia offers
InvalidConcept == "CONCEPT_99"

EmptyMapping == [c \in {} |-> ""]

\* str(x) inside an f-string: None prints as "None"
PyStr(x) == IF x = NULL THEN "None" ELSE x

\* the reason with the wording of the wiki client's exception
StartPageNotFoundReasonOfClient(title) == "Wikipedia page not found: " \o title

\* f"Start page not found: {current_page_title}" (line 263)
StartPageNotFoundReason(title) == "Start page not found: " \o title

\* f"Loop detected: {current_page_title} visited {loop_count} times" (line 433)
LoopReason(title, loop_count) ==
    "Loop detected: " \o title \o " visited " \o ToString(loop_count) \o " times"

\* f"Max hallucination retries reached ({max}). Invalid concept ID: {id}" (line 376)
RetryCapReason(max_retries, concept) ==
    "Max hallucination retries reached (" \o ToString(max_retries)
        \o "). Invalid concept ID: " \o PyStr(concept)

(***************************************************************************)
(* WikipediaClient._preprocess_and_anonymize: the mapping part.            *)
(***************************************************************************)
\* the link list taken as it is, duplicates included
DedupKeepsAll(links, seen) == links

RECURSIVE Dedup(_, _)
\* list(dict.fromkeys(links)): first occurrences, in order
Dedup(links, seen) ==
    IF links = <<>> THEN <<>>
    ELSE IF Head(links) \in seen THEN Dedup(Tail(links), seen)
    ELSE <<Head(links)>> \o Dedup(Tail(links), seen \cup {Head(links)})

RECURSIVE InsertByLen(_, _)
\* place t after every element at least as long (stable, longest first)
InsertByLen(sorted, t) ==
    IF sorted = <<>> THEN <<t>>
    ELSE IF Len(Head(sorted)) >= Len(t)
         THEN <<Head(sorted)>> \o InsertByLen(Tail(sorted), t)
         ELSE <<t>> \o sorted

RECURSIVE SortByLenDesc(_)
\* sorted(unique_links, key=len, reverse=True)
SortByLenDesc(s) ==
    IF s = <<>> THEN <<>>
    ELSE InsertByLen(SortByLenDesc(SubSeq(s, 1, Len(s) - 1)), s[Len(s)])

\* mapping[f"CONCEPT_{i:02d}"] = sorted_links[i]
AnonymizeMapping(links) ==
    LET sorted == SortByLenDesc(Dedup(links, {}))
    IN [c \in {ConceptId(i - 1) : i \in 1..Len(sorted)} |->
            sorted[CHOOSE i \in 1..Len(sorted) : ConceptId(i - 1) = c]]

\* ArchiveManager._sanitize_model_name on the model names that occur
SanitizeModelName(m) ==
    CASE m = "a/b" -> "a_b"
      [] m = "a:b" -> "a_b"
      [] OTHER -> m

\* get_archive_details: item.name.replace("model_", "").replace("_", "/", 1)
\* on the directory names that occur
ModelNameOfDir(safe_model_name) ==
    CASE safe_model_name = "a_b" -> "a/b"
      [] OTHER -> safe_model_name

(***************************************************************************)
(* Run configurations (RunConfig).  use_langchain stands for               *)
(* config.use_langchain and config.api_key, the test of lines 190 and 288. *)
(***************************************************************************)
\* Runs of two models are explored with fewer step indexes than runs of one.
ModelLists == {<<"a/b">>, <<"a/b", "a:b">>}
StartPages == {"A", "Ghost", "Z"}
TargetPages == {"a", "Bb", "Z"}

MaxStepsFor(models) == IF Len(models) = 1 THEN MaxSteps ELSE MaxStepsTwoModels

Configs ==
    {c \in [models : ModelLists,
            start_page : StartPages,
            target_page : TargetPages,
            max_steps : 0..MaxSteps,
            max_loops : 1..MaxLoops,
            max_hallucination_retries : 0..MaxHallucinationRetries,
            use_langchain : BOOLEAN] :
        c.max_steps <= MaxStepsFor(c.models)}

\* One model between the pages A and Bb with the default max_loops, for as
\* many step indexes as a ping-pong needs to come back to A a third time.
PingPongConfigs ==
    [models : {<<"a/b">>},
     start_page : {"A"},
     target_page : {"Z"},
     max_steps : {MaxStepsPingPong},
     max_loops : {DefaultMaxLoops},
     max_hallucination_retries : {1},
     use_langchain : BOOLEAN]

\* One model starting on A, for the runs that share the page cache with
\* other runs of the process.
SharedCacheConfigs ==
    {c \in Configs : /\ c.models = <<"a/b">>
                     /\ c.start_page = "A"
                     /\ c.target_page # "a"
                     /\ c.max_steps = MaxStepsShared
                     /\ c.max_loops = MaxLoops
                     /\ c.max_hallucination_retries >= 1}

\* One model and few step indexes, for the runs that are watched by
\* subscribers: the runs of at most MaxStepsTwoSockets step indexes start on
\* their target, the page without links, and allow no retry; the longer
\* ones start on A.
LiveConfigs ==
    {c \in Configs : /\ c.models = <<"a/b">>
                     /\ \/ /\ c.start_page = "Z"
                           /\ c.target_page = "Z"
                           /\ c.max_steps <= MaxStepsTwoSockets
                           /\ c.max_hallucination_retries = 0
                        \/ /\ c.start_page = "A"
                           /\ c.target_page = "Z"
                           /\ c.max_steps > MaxStepsTwoSockets
                           /\ c.max_steps <= MaxStepsLive
                           /\ c.max_hallucination_retries = 1
                     /\ c.max_loops = MaxLoops
                     /\ ~c.use_langchain}

\* the websockets that can subscribe to the run's topic, in the order in
\* which they do
Sockets == <<"ws1", "ws2">>

\* how many of them subscribe: two to the runs of at most MaxStepsTwoSockets
\* step indexes, one to the longer runs
MaxSockets(c) == IF c.max_steps <= MaxStepsTwoSockets THEN 2 ELSE 1

VARIABLES
    config,                     \* the RunConfig of the run
    pc,                         \* position of the run task
    active_orchestrators,       \* main.active_orchestrators (its keys)
    stop_requested,             \* BenchmarkOrchestrator.stop_requested
    active_connections,         \* ConnectionManager.active_connections[run_id]
    connection_ready,           \* ConnectionManager.connection_ready[run_id] is set
    send_queue,                 \* the send_to_connection tasks that have not finished, in
                                \* creation order, each broadcast's tasks followed by the
                                \* gather that the broadcast awaits (ws = NULL)
    gather_failed,              \* per publisher: the connections that the tasks of its
                                \* gather in progress have returned as failed
    received,                   \* per websocket that connected: the events sent to it
    closed,                     \* the websockets on which send_json raises: a send has
                                \* failed on them, or their client has disconnected
    joined,                     \* observation: per websocket, the number of events published
                                \* when it connected, whether wait_for_connection was
                                \* still to return, and whether its timeout had elapsed
    wait_result,                \* observation: what wait_for_connection returned
    concurrent_publish,         \* observation: stop_run broadcast while a gather of the run
                                \* task was in progress
    send_raised,                \* observation: the websockets on which a send_json raised
    events,                     \* the broadcasts made on the run's topic, in order
    page_cache,                 \* WikipediaClient._page_cache: title -> mapping of the cached page
    model_idx,                  \* run_benchmark: loop variable
    all_results,                \* run_benchmark: model name -> metrics
    run_error,                  \* run_benchmark: run_error
    summary,                    \* summary.json, NULL until written
    current_page_title, history, excluded_links, steps, status, reason,
    consecutive_hallucinations, total_retries, step_idx, page,
                                \* locals of _run_single_model_benchmark
    available_concepts,         \* page.mapping as read when the adapter call in flight was
                                \* issued (the available_concepts argument, line 293)
    pending_step,               \* the step_data of a hallucination whose event is being
                                \* broadcast and that is not appended to steps yet, or NULL
    stale_page,                 \* <<m>> when the WikiPage held in page is no longer the
                                \* object in the cache (another run's fetch put a new one
                                \* there), m its mapping; <<>> while page is the cached object
    step_files,                 \* <<sanitized model, index>> -> step record written
    metrics_files,              \* sanitized model -> metrics written
    model_metrics,              \* per model index: the metrics the model run returned
    stops,                      \* number of accepted stop requests
    stop_reply,                 \* observation: the answer of the last stop_run call that
                                \* returned
    stop_waiting,               \* the stop_run calls that have set the flag and are awaiting
                                \* the gather of their broadcast
    probe,                      \* a component called on its own, outside a run: its
                                \* arguments, its position and its result
    stop_early,                 \* observation: a stop was accepted before run_benchmark was entered
    stop_midstep,               \* observation: a stop was accepted while this model's step was in flight
    status_assignments,         \* observation: terminal assignments to status in this model run
    llm_calls,                  \* observation: LLM calls issued in this model run
    llm_after_cap,              \* observation: an LLM call was issued after the retry cap was reached
    fatal_model                 \* observation: index of the model that raised, or -1

model_vars == <<current_page_title, history, excluded_links, steps, status, reason,
                consecutive_hallucinations, total_retries, step_idx, page,
                available_concepts, pending_step, stale_page>>
obs_vars == <<stop_early, stop_midstep, status_assignments, llm_calls, llm_after_cap, fatal_model>>
run_vars == <<model_idx, all_results, run_error, summary, model_metrics>>
sub_vars == <<gather_failed, received, closed, joined>>
live_obs == <<concurrent_publish, send_raised>>
conn_vars == <<active_connections, connection_ready, sub_vars, wait_result, live_obs>>
\* what of them a step of the run task leaves alone: broadcast's clean-up
\* after a gather changes active_connections and gather_failed
run_conn_vars == <<connection_ready, received, closed, joined, wait_result, live_obs>>
file_vars == <<step_files, metrics_files>>

vars == <<probe, config, pc, active_orchestrators, stop_requested, conn_vars, send_queue, events,
          page_cache, run_vars, model_vars, file_vars, stops, stop_reply, stop_waiting, obs_vars>>

\* an event on the topic: its type, the model index it carries (-1: none) and,
\* for step events, which kind of step it reports
Event(type, m, kind) == [type |-> type, model |-> m, kind |-> kind]

\* whether the message of an event holds a timestamp: only the step_data of a
\* step event has the key (orchestrator 223, 312, 341), no other message has
\* one and broadcast sends the message as it is
Timestamped(ev) == ev.type = "step"

\* manager.broadcast(run_id, message) as seen from the publisher
Publish(evs, type, m) == Append(evs, Event(type, m, ""))
PublishStep(evs, m, kind) == Append(evs, Event("step", m, kind))

\* the tasks of stop_run and of the run task broadcast on the topic
Publishers == {"run", "stop"}

\* list.remove on the connections of the topic
Without(conns, gone) == SelectSeq(conns, LAMBDA w : w \notin gone)

\* a failure drops every connection of the topic
AfterGatherDropsAll(conns, failed) == IF failed = {} THEN conns ELSE <<>>

\* the connections left after the clean-up that follows the gather (108-112)
AfterGather(conns, failed) == Without(conns, failed)

\* only the first connection of the topic is sent the message
BroadcastTargetsFirst(conns) == IF conns = <<>> THEN <<>> ELSE <<Head(conns)>>

\* connections = self.active_connections[run_id]: the message goes to every
\* connection that is in the list when broadcast is called (90, 104)
BroadcastTargets(conns) == conns

\* asyncio.gather(*[send_to_connection(conn) for conn in connections]): one
\* task per connection, in the order of the list, and the gather that
\* broadcast awaits; nothing without connections (86-91)
Sends(conns, ev, by) ==
    IF conns = <<>> THEN <<>>
    ELSE [i \in 1..Len(BroadcastTargets(conns)) |->
             [ws |-> BroadcastTargets(conns)[i], ev |-> ev, by |-> by]]
         \o <<[ws |-> NULL, ev |-> ev, by |-> by]>>

RECURSIVE SendsAll(_, _, _)
\* the broadcasts of a handler that is not suspended by them
SendsAll(conns, evs, by) ==
    IF evs = <<>> THEN <<>>
    ELSE Sends(conns, Head(evs), by) \o SendsAll(conns, Tail(evs), by)

\* an entry of send_queue is a send task, or the gather of a broadcast
IsSend(t) == t.ws # NULL

\* the publisher awaits no gather
Idle(by) == \A i \in DOMAIN send_queue : send_queue[i].by # by

\* every send task of the publisher's gather, if it awaits one, has finished:
\* the publisher runs on
Resumes(by) == \A i \in DOMAIN send_queue : send_queue[i].by = by => ~IsSend(send_queue[i])

\* the run task is not awaiting a gather of its own broadcasts
RunIdle == Idle("run")

\* the run task can run: it awaits no gather, or the gather it awaits is done
RunResumes == Resumes("run")

\* send_queue without the gather that the publisher awaited
AfterReturn(q, by) == SelectSeq(q, LAMBDA t : t.by # by)

\* the connections of the topic once the publisher's broadcast has returned:
\* those that its gather returned as failed are removed (108-112)
Cleaned(by) == AfterGather(active_connections, gather_failed[by])

\* a step of a publisher: the broadcast it awaited, if any, does its clean-up
\* and returns, and the events that the step appends are broadcast to the
\* connections of the topic
Fanout(by) ==
    /\ active_connections' = Cleaned(by)
    /\ gather_failed' = [gather_failed EXCEPT ![by] = {}]
    /\ send_queue' = AfterReturn(send_queue, by)
          \o SendsAll(Cleaned(by), SubSeq(events', Len(events) + 1, Len(events')), by)

\* for model_idx, model_name in enumerate(config.models): the index of the
\* next iteration
NextModelIdxRepeats(i) == i
NextModelIdx(i) == i + 1

ModelName == config.models[model_idx + 1]
NumModels == Len(config.models)

(***************************************************************************)
(* start_run: the orchestrator is registered and the task is created.      *)
(***************************************************************************)
InitTask ==
    /\ pc = "created"
    /\ active_orchestrators = {RunId}
    /\ stop_requested = FALSE
    /\ active_connections = <<>>
    /\ connection_ready = FALSE
    /\ send_queue = <<>>
    /\ gather_failed = [by \in Publishers |-> {}]
    /\ received = <<>>
    /\ closed = {}
    /\ joined = <<>>
    /\ wait_result = NULL
    /\ concurrent_publish = FALSE
    /\ send_raised = {}
    /\ events = <<>>
    /\ model_idx = 0
    /\ all_results = EmptyMapping
    /\ run_error = NULL
    /\ summary = NULL
    /\ current_page_title = NULL
    /\ history = <<>>
    /\ excluded_links = EmptyMapping
    /\ steps = <<>>
    /\ status = "running"
    /\ reason = ""
    /\ consecutive_hallucinations = 0
    /\ total_retries = 0
    /\ step_idx = 0
    /\ page = NULL
    /\ available_concepts = EmptyMapping
    /\ pending_step = NULL
    /\ stale_page = <<>>
    /\ step_files = EmptyMapping
    /\ metrics_files = EmptyMapping
    /\ model_metrics = <<>>
    /\ stops = 0
    /\ stop_reply = NULL
    /\ stop_waiting = 0
    /\ stop_early = FALSE
    /\ stop_midstep = FALSE
    /\ status_assignments = 0
    /\ llm_calls = 0
    /\ llm_after_cap = FALSE
    /\ fatal_model = -1

\* the first run of the process: the cache of its WikipediaClient is empty
InitRun == InitTask /\ page_cache = EmptyMapping

\* no component is called on its own
NoProbe == [kind |-> "none"]

Init == config \in Configs /\ InitRun /\ probe = NoProbe

InitPingPong == config \in PingPongConfigs /\ InitRun /\ probe = NoProbe

InitLive == config \in LiveConfigs /\ InitRun /\ probe = NoProbe

(***************************************************************************)
(* Helpers of the run task.                                                *)
(***************************************************************************)
\* d[k] = v on a dict
Put(d, k, v) == [x \in (DOMAIN d) \cup {k} |-> IF x = k THEN v ELSE d[x]]

\* sum(1 for x in seq if ...): flags[i] tells whether the i-th element counts
CountTrue(flags) == Cardinality({i \in DOMAIN flags : flags[i]})

\* a full window that drops its newest entry
HistoryAppendDropsNewest(h, p) ==
    IF Len(h) >= HistoryMaxLen THEN Append(SubSeq(h, 1, Len(h) - 1), p) ELSE Append(h, p)

\* deque(maxlen=5).append
HistoryAppend(h, p) ==
    IF Len(h) >= HistoryMaxLen THEN Append(Tail(h), p) ELSE Append(h, p)

\* the summary dict of run_benchmark (orchestrator.py 124-132)
MakeSummary(results, err) ==
    [models |-> DOMAIN results,
     completed |-> Cardinality({m \in DOMAIN results : results[m].status = "success"}),
     failed |-> Cardinality({m \in DOMAIN results : results[m].status = "failed"}),
     status |-> IF err # NULL THEN "failed" ELSE "completed",
     error |-> err]

(***************************************************************************)
(* main.py: run_with_error_handling up to run_benchmark.                   *)
(***************************************************************************)
\* the task starts: broadcast run_created, then wait_for_connection
TaskStart ==
    /\ RunResumes
    /\ pc = "created"
    /\ events' = Publish(events, "run_created", -1)
    /\ pc' = "waiting"
    /\ UNCHANGED <<probe, config, active_orchestrators, stop_requested, run_conn_vars, page_cache,
                   run_vars, model_vars, file_vars, stops, stop_reply, stop_waiting, obs_vars>>
    /\ Fanout("run")

\* the wait returned True although wait_for timed out
WaitResultAlwaysConnected(timed_out) == "connected"

\* wait_for_connection: True when wait_for returns, False when it raises
\* TimeoutError (main.py 127-132)
WaitResult(timed_out) == IF timed_out THEN "timeout" ELSE "connected"

\* the timer of asyncio.wait_for fires before the event is set: wait_for
\* cancels Event.wait() and waits for the cancellation, and a websocket
\* that registers from here on no longer turns the wait into a success
WaitTimeout ==
    /\ RunResumes
    /\ pc = "waiting"
    /\ ~connection_ready
    /\ pc' = "cancelling"
    /\ UNCHANGED <<probe, config, active_orchestrators, stop_requested, run_conn_vars, events,
                   page_cache, run_vars, model_vars, file_vars, stops, stop_reply, stop_waiting,
                   obs_vars>>
    /\ Fanout("run")

\* wait_for_connection returns, with True when the event was set while the
\* wait was pending and with False after the timeout, whether or not a
\* websocket has registered since; after a connection the task sleeps 0.5 s
\* before it goes on
WaitForConnection ==
    /\ RunResumes
    /\ pc \in {"waiting", "cancelling"}
    /\ pc = "waiting" => connection_ready
    /\ wait_result' = WaitResult(pc = "cancelling")
    /\ pc' = "settle"
    /\ UNCHANGED <<probe, config, active_orchestrators, stop_requested,
                   connection_ready, received, closed, joined, live_obs, events,
                   page_cache, run_vars, model_vars, file_vars, stops, stop_reply, stop_waiting, obs_vars>>
    /\ Fanout("run")

\* a broadcast of the run task reaches its gather and the task is suspended
\* until the sends are done; without a connection on the topic broadcast
\* returns at once (main.py 86-91) and the task goes on in the same step
Suspends == Cleaned("run") # <<>>

\* broadcast ready_to_start (main.py 216-220), then run_benchmark up to its
\* first loop test (orchestrator.py 56-70): the stop flag is reset, the
\* config saved, run_start published
RunBenchmarkEntry ==
    /\ RunResumes
    /\ pc = "settle"
    /\ IF Suspends
       THEN /\ events' = Publish(events, "ready_to_start", -1)
            /\ pc' = "entry"
            /\ UNCHANGED stop_requested
       ELSE /\ stop_requested' = FALSE
            /\ events' = Publish(Publish(events, "ready_to_start", -1), "run_start", -1)
            /\ pc' = "models"
    /\ UNCHANGED <<probe, config, active_orchestrators, run_conn_vars, page_cache,
                   run_vars, model_vars, file_vars, stops, stop_reply, stop_waiting, obs_vars>>
    /\ Fanout("run")

\* the gather of ready_to_start is done: run_benchmark is entered
RunStart ==
    /\ RunResumes
    /\ pc = "entry"
    /\ stop_requested' = FALSE
    /\ events' = Publish(events, "run_start", -1)
    /\ pc' = "models"
    /\ UNCHANGED <<probe, config, active_orchestrators, run_conn_vars, page_cache,
                   run_vars, model_vars, file_vars, stops, stop_reply, stop_waiting, obs_vars>>
    /\ Fanout("run")

(***************************************************************************)
(* run_benchmark: the loop over the models.                                *)
(***************************************************************************)
ModelLoop ==
    /\ RunResumes
    /\ pc = "models"
    /\ IF model_idx >= NumModels
       THEN /\ pc' = "summary"
            /\ events' = events
       ELSE IF stop_requested
       THEN /\ pc' = "summary"
            /\ events' = Publish(events, "run_stopped", -1)
       ELSE /\ pc' = "starting"
            \* the first model sleeps before its model_start, the others after
            /\ events' = IF model_idx = 0 THEN events
                         ELSE Publish(events, "model_start", model_idx)
    /\ UNCHANGED <<probe, config, active_orchestrators, stop_requested, run_conn_vars, page_cache,
                   run_vars, model_vars, file_vars, stops, stop_reply, stop_waiting, obs_vars>>
    /\ Fanout("run")

\* the locals of _run_single_model_benchmark as lines 172-185 set them
EnterModel ==
    /\ current_page_title' = config.start_page
    /\ history' = <<>>
    /\ excluded_links' = EmptyMapping
    /\ steps' = <<>>
    /\ status' = "running"
    /\ reason' = ""
    /\ consecutive_hallucinations' = 0
    /\ total_retries' = 0
    /\ step_idx' = 0
    /\ page' = NULL
    /\ available_concepts' = EmptyMapping
    /\ pending_step' = NULL
    /\ stale_page' = <<>>
    /\ stop_midstep' = FALSE
    /\ status_assignments' = 0
    /\ llm_calls' = 0
    /\ llm_after_cap' = FALSE
    /\ pc' = "loop"

\* the sleep before the call is over.  For the first model it is the sleep
\* of line 86: model_start is published (90) and the task sleeps again
\* (100).  For the other models it is the sleep of line 100:
\* _run_single_model_benchmark is entered
StartModel ==
    /\ RunIdle
    /\ pc = "starting"
    /\ IF model_idx = 0
       THEN /\ events' = Publish(events, "model_start", model_idx)
            /\ pc' = "started"
            /\ UNCHANGED <<model_vars, stop_midstep, status_assignments, llm_calls,
                           llm_after_cap>>
       ELSE /\ events' = events
            /\ EnterModel
    /\ UNCHANGED <<probe, config, active_orchestrators, stop_requested, run_conn_vars, page_cache,
                   run_vars, file_vars, stops, stop_reply, stop_waiting, stop_early, fatal_model>>
    /\ Fanout("run")

\* the first model's sleep of line 100 is over:
\* _run_single_model_benchmark is entered
StartFirstModel ==
    /\ RunIdle
    /\ pc = "started"
    /\ EnterModel
    /\ UNCHANGED <<probe, config, active_orchestrators, stop_requested, run_conn_vars,
                   events, page_cache, run_vars, file_vars, stops, stop_reply, stop_waiting,
                   stop_early, fatal_model>>
    /\ Fanout("run")

(***************************************************************************)
(* _run_single_model_benchmark: the loop over the step indexes.            *)
(***************************************************************************)
\* a step_data dict; an absent key is NULL (strings), FALSE (is_retry) or 0
StepData(idx, title, type, concept, mapping, retry, retry_no, next_title, method) ==
    [step |-> idx, page_title |-> title, type |-> type,
     next_concept_id |-> concept, mapping |-> mapping,
     is_retry |-> retry, retry_number |-> retry_no,
     next_page_title |-> next_title, parsing_method |-> method]

\* archive_manager.save_model_step(run_id, model_name, step_index, step_data)
SaveModelStep(files, model, idx, data) ==
    Put(files, <<SanitizeModelName(model), idx>>, data)

\* an exception leaves _run_single_model_benchmark (465-470) and is caught by
\* run_benchmark (118-143): summary saved, error published, then re-raised
RaiseInModel(err) ==
    /\ status' = "failed"
    /\ reason' = "Unexpected error"
    /\ status_assignments' = status_assignments + 1
    /\ run_error' = err
    /\ stop_requested' = TRUE
    /\ summary' = MakeSummary(all_results, err)
    /\ events' = Publish(events, "error", -1)
    /\ fatal_model' = model_idx
    /\ pc' = "finishing"

\* the range taken one index too far
RangeExhaustedLate(idx, max_steps) == idx > max_steps

\* range(config.max_steps) has no index left
RangeExhausted(idx, max_steps) == idx >= max_steps

\* for step_idx in range(max_steps): the stop check at the loop boundary
LoopTop ==
    /\ RunResumes
    /\ pc = "loop"
    /\ IF RangeExhausted(step_idx, config.max_steps)
       THEN /\ pc' = "finalize"
            /\ UNCHANGED <<status, reason, events, status_assignments>>
       ELSE IF stop_requested
       THEN /\ status' = "stopped"
            /\ reason' = "Benchmark stopped by user"
            /\ status_assignments' = status_assignments + 1
            /\ events' = Publish(events, "model_stopped", model_idx)
            /\ pc' = "finalize"
       ELSE /\ pc' = "fetch"
            /\ UNCHANGED <<status, reason, events, status_assignments>>
    /\ UNCHANGED <<probe, config, active_orchestrators, stop_requested, run_conn_vars, page_cache,
                   run_vars, current_page_title, history, excluded_links, steps,
                   consecutive_hallucinations, total_retries, step_idx, page,
                   available_concepts, pending_step, stale_page, file_vars, stops,
                   stop_reply, stop_waiting, stop_early, stop_midstep, llm_calls,
                   llm_after_cap, fatal_model>>
    /\ Fanout("run")

\* index of the last step before the newest one with a truthy next_concept_id, or 0
LastValidStep(ss) ==
    LET cand == {i \in 1..(Len(ss) - 1) : ss[i].next_concept_id \notin {NULL, ""}}
    IN IF cand = {} THEN 0 ELSE CHOOSE i \in cand : \A j \in cand : j <= i

\* excluded_links[title].append(concept)
Exclude(ex, title, concept) ==
    Put(ex, title, IF title \in DOMAIN ex THEN Append(ex[title], concept)
                   ELSE <<concept>>)

\* the mapping left as fetched
FilterMappingKeepsAll(mapping, excluded) == mapping

\* {k: v for k, v in mapping.items() if k not in excluded}
FilterMapping(mapping, excluded) ==
    [c \in {k \in DOMAIN mapping : \A i \in DOMAIN excluded : excluded[i] # k}
        |-> mapping[c]]

\* fetch_page with the cache never consulted
CacheHitNever(cache, title) == FALSE

\* use_cache and title in self._page_cache (wiki_client.py 50)
CacheHit(cache, title) == title \in DOMAIN cache

\* what _fetch_all_links can return for a page: the links of the pages of the
\* pagination read before a request failed (every exception is caught and the
\* links read so far are returned), all of them when none failed
FetchedLinks(title) ==
    {SubSeq(WikiLinks(title), 1, n) : n \in 0..Len(WikiLinks(title))}

\* the fetch that ends now found the page in the cache when it tested it
\* (line 50) and returned it at once
FetchHit == pc = "fetch" /\ CacheHit(page_cache, current_page_title)

\* the fetch that ends now did not find the page in the cache when it tested
\* it: now, or before the requests during which it was suspended (pc
\* "fetching")
FetchMissed ==
    \/ pc = "fetch" /\ ~CacheHit(page_cache, current_page_title)
    \/ pc = "fetching"

\* fetch_page returns the cached or the freshly fetched page; then lines
\* 214 and 270-283
FetchPage ==
    /\ RunResumes
    /\ FetchHit \/ FetchMissed
    /\ stale_page' = <<>>
    /\ LET t == current_page_title
           cached == FetchHit
       IN /\ cached \/ WikiExists(t)
          /\ \E cache1 \in (IF cached THEN {page_cache}
                            ELSE {Put(page_cache, t, AnonymizeMapping(links)) :
                                     links \in FetchedLinks(t)}) :
               /\ history' = HistoryAppend(history, t)
               /\ page' = t
               /\ IF Lower(t) = Lower(config.target_page)
                  THEN /\ status' = "success"
                       /\ reason' = "Target reached"
                       /\ status_assignments' = status_assignments + 1
                       /\ page_cache' = cache1
                       /\ pc' = "finalize"
                       /\ UNCHANGED <<llm_calls, llm_after_cap, available_concepts>>
                  ELSE \* page.mapping is reassigned on the cached page object
                       LET mapping == IF t \in DOMAIN excluded_links
                                      THEN FilterMapping(cache1[t], excluded_links[t])
                                      ELSE cache1[t]
                       IN
                       /\ page_cache' = Put(cache1, t, mapping)
                       /\ available_concepts' = mapping
                       /\ llm_calls' = llm_calls + 1
                       /\ llm_after_cap' =
                             (llm_after_cap \/ consecutive_hallucinations
                                                 >= config.max_hallucination_retries)
                       /\ pc' = "llm"
                       /\ UNCHANGED <<status, reason, status_assignments>>
    /\ UNCHANGED <<current_page_title, excluded_links, steps, step_idx, events, step_files>>
    /\ UNCHANGED <<probe, config, active_orchestrators, stop_requested, run_conn_vars, run_vars,
                   consecutive_hallucinations, total_retries, pending_step, metrics_files,
                   stops, stop_reply, stop_waiting, stop_early, stop_midstep, fatal_model>>
    /\ Fanout("run")

\* lines 243-264 after the step ss[Len(ss)] of a page that was not found:
\* back to the previous page, without the concept that led here when the last
\* step with a choice names this page; without a previous page the model run
\* fails
Backtrack(ss) ==
    LET t == current_page_title
        lv == LastValidStep(ss)
    IN IF Len(history) > 0
       THEN LET previous == history[Len(history)]
            IN /\ excluded_links' =
                     IF lv # 0 /\ ss[lv].next_page_title = t
                     THEN Exclude(excluded_links, previous, ss[lv].next_concept_id)
                     ELSE excluded_links
               /\ current_page_title' = previous
               /\ step_idx' = step_idx + 1
               /\ pc' = "loop"
               /\ UNCHANGED <<status, reason, status_assignments>>
       ELSE /\ status' = "failed"
            /\ reason' = StartPageNotFoundReason(t)
            /\ status_assignments' = status_assignments + 1
            /\ pc' = "finalize"
            /\ UNCHANGED <<excluded_links, current_page_title, step_idx>>

\* fetch_page raises a ValueError whose text contains "not found": the page is
\* missing (line 89), or the extract request was answered with HTTP status
\* 404 ("Failed to fetch Wikipedia page ...: Client error '404 Not Found'
\* ...", line 97), which can happen for any page that is not cached; then
\* lines 215-264
FetchNotFound ==
    /\ RunResumes
    /\ FetchMissed
    /\ LET t == current_page_title
           step_data == StepData(step_idx, t, "not_found", NULL, EmptyMapping,
                                 FALSE, 0, NULL, NULL)
           steps1 == Append(steps, step_data)
       IN /\ steps' = steps1
          /\ step_files' = SaveModelStep(step_files, ModelName, step_idx, step_data)
          /\ events' = PublishStep(events, model_idx, "404")
          /\ IF Suspends
             THEN \* the step event is awaited before line 243
                  /\ pc' = "notfound"
                  /\ UNCHANGED <<excluded_links, current_page_title, step_idx, status,
                                 reason, status_assignments>>
             ELSE Backtrack(steps1)
    /\ UNCHANGED <<history, page, page_cache, llm_calls, llm_after_cap, available_concepts>>
    /\ UNCHANGED <<probe, config, active_orchestrators, stop_requested, run_conn_vars, run_vars,
                   consecutive_hallucinations, total_retries, pending_step, stale_page,
                   metrics_files, stops, stop_reply, stop_waiting, stop_early, stop_midstep,
                   fatal_model>>
    /\ Fanout("run")

\* the gather of the step event of a page that was not found is done: lines
\* 243-264
NotFoundStep ==
    /\ RunResumes
    /\ pc = "notfound"
    /\ Backtrack(steps)
    /\ UNCHANGED <<history, page, page_cache, llm_calls, llm_after_cap, available_concepts>>
    /\ UNCHANGED <<probe, config, active_orchestrators, stop_requested, run_conn_vars,
                   events, run_vars, steps, consecutive_hallucinations, total_retries,
                   pending_step, stale_page, file_vars, stops, stop_reply, stop_waiting,
                   stop_early, stop_midstep, fatal_model>>
    /\ Fanout("run")

\* fetch_page raises a ValueError whose text does not contain "not found" (a
\* network failure, an invalid or empty answer); a cached page is returned
\* without any request
FetchError ==
    /\ RunResumes
    /\ FetchMissed
    /\ RaiseInModel("Failed to fetch Wikipedia page")
    /\ UNCHANGED <<probe, config, active_orchestrators, run_conn_vars, page_cache, model_idx,
                   all_results, model_metrics, current_page_title, history,
                   excluded_links, steps, consecutive_hallucinations, total_retries,
                   step_idx, page, available_concepts, pending_step, stale_page, file_vars,
                   stops,
                   stop_reply, stop_waiting, stop_early, stop_midstep, llm_calls, llm_after_cap>>
    /\ Fanout("run")

\* what the adapter can hand back for a call that returns:
\* chat_completion_structured returns a key of the available_concepts it was
\* given (parsing method structured or regex) or PARSING_FAILED; the legacy
\* client returns whatever _extract_concept_id finds in the reply to a prompt
\* that shows the page's extract with all its concepts: an id or None
LLMOutcomes(passed, title) ==
    IF config.use_langchain
    THEN {[content |-> c, parsing_method |-> pm] :
              c \in DOMAIN passed, pm \in {"structured", "regex"}}
         \cup {[content |-> PARSING_FAILED, parsing_method |-> "failed"]}
    ELSE {[content |-> c, parsing_method |-> "legacy_regex"] :
              c \in (DOMAIN AnonymizeMapping(WikiLinks(title)))
                        \cup {InvalidConcept, NULL}}

\* the cap test with an off-by-one comparison
RetryCapReachedOffByOne(count, cap) == count > cap

\* consecutive_hallucinations >= config.max_hallucination_retries (line 374)
RetryCapReached(count, cap) == count >= cap

\* loop_count = sum(1 for h in history if h.title.lower() == title.lower())
LoopCount(h, title) == CountTrue([i \in DOMAIN h |-> Lower(h[i]) = Lower(title)])

\* loop_count >= config.max_loops (line 431)
LoopDetected(h, title, max_loops) == LoopCount(h, title) >= max_loops

\* the chosen id taken for the title
NextPageTitleIsConcept(mapping, concept) == concept

\* page.mapping[next_concept_id] (line 406)
NextPageTitle(mapping, concept) == mapping[concept]

\* lines 428-434 after a valid choice led to the page title: the model run
\* fails when the history holds the page max_loops times, else the loop goes on
LoopCheck(title) ==
    IF LoopDetected(history, title, config.max_loops)
    THEN /\ status' = "failed"
         /\ reason' = LoopReason(title, LoopCount(history, title))
         /\ status_assignments' = status_assignments + 1
         /\ pc' = "finalize"
         /\ UNCHANGED step_idx
    ELSE /\ step_idx' = step_idx + 1
         /\ pc' = "loop"
         /\ UNCHANGED <<status, reason, status_assignments>>

\* page.mapping of the WikiPage that fetch_page returned
PageMapping == IF stale_page = <<>> THEN page_cache[page] ELSE stale_page[1]

\* the LLM call returns: lines 296-434
LLMReturn ==
    /\ RunResumes
    /\ pc = "llm"
    /\ \E r \in LLMOutcomes(available_concepts, page) :
         LET mapping == PageMapping
             next_concept_id == r.content
             is_hallucination == next_concept_id \in {NULL, ""}
                                 \/ next_concept_id \notin DOMAIN mapping
         IN IF is_hallucination
            THEN LET n == consecutive_hallucinations + 1
                     step_data == StepData(step_idx, current_page_title, "llm",
                                           next_concept_id, mapping, TRUE, n, NULL,
                                           r.parsing_method)
                 IN /\ consecutive_hallucinations' = n
                    /\ total_retries' = total_retries + 1
                    /\ IF Suspends
                       THEN \* the hallucination event is awaited first (358)
                            /\ events' = Publish(events, "hallucination", model_idx)
                            /\ pending_step' = step_data
                            /\ pc' = "hallucination"
                            /\ UNCHANGED <<steps, step_files, status, reason,
                                           status_assignments, step_idx>>
                       ELSE
                       /\ steps' = Append(steps, step_data)
                       /\ step_files' = SaveModelStep(step_files, ModelName, step_idx,
                                                      step_data)
                       /\ UNCHANGED pending_step
                       /\ IF RetryCapReached(n, config.max_hallucination_retries)
                          THEN /\ status' = "failed"
                               /\ reason' = RetryCapReason(config.max_hallucination_retries,
                                                         next_concept_id)
                               /\ status_assignments' = status_assignments + 1
                               /\ events' = Publish(events, "hallucination", model_idx)
                               /\ pc' = "finalize"
                               /\ UNCHANGED step_idx
                          ELSE /\ events' = PublishStep(
                                      Publish(events, "hallucination", model_idx),
                                      model_idx, "hallucination")
                               /\ step_idx' = step_idx + 1
                               /\ pc' = "loop"
                               /\ UNCHANGED <<status, reason, status_assignments>>
                    /\ UNCHANGED current_page_title
            ELSE LET next_title == NextPageTitle(mapping, next_concept_id)
                     step_data == StepData(step_idx, current_page_title, "llm",
                                           next_concept_id, mapping, FALSE, 0,
                                           next_title, r.parsing_method)
                 IN /\ consecutive_hallucinations' = 0
                    /\ current_page_title' = next_title
                    /\ steps' = Append(steps, step_data)
                    /\ step_files' = SaveModelStep(step_files, ModelName, step_idx, step_data)
                    /\ events' = PublishStep(events, model_idx, "advance")
                    /\ IF Suspends
                       THEN \* the step event is awaited before line 428
                            /\ pc' = "advanced"
                            /\ UNCHANGED <<status, reason, status_assignments, step_idx>>
                       ELSE LoopCheck(next_title)
                    /\ UNCHANGED <<total_retries, pending_step>>
    /\ UNCHANGED <<probe, config, active_orchestrators, stop_requested, run_conn_vars, page_cache,
                   run_vars, history, excluded_links, page, available_concepts, stale_page,
                   metrics_files, stops, stop_reply, stop_waiting, stop_early, stop_midstep, llm_calls,
                   llm_after_cap, fatal_model>>
    /\ Fanout("run")

\* the gather of the hallucination event is done: the retry cap is tested,
\* the step appended and saved, and below the cap the step event published
\* (lines 373-402)
HallucinationStep ==
    /\ RunResumes
    /\ pc = "hallucination"
    /\ steps' = Append(steps, pending_step)
    /\ step_files' = SaveModelStep(step_files, ModelName, step_idx, pending_step)
    /\ pending_step' = NULL
    /\ IF RetryCapReached(consecutive_hallucinations, config.max_hallucination_retries)
       THEN /\ status' = "failed"
            /\ reason' = RetryCapReason(config.max_hallucination_retries,
                                      pending_step.next_concept_id)
            /\ status_assignments' = status_assignments + 1
            /\ pc' = "finalize"
            /\ UNCHANGED <<events, step_idx>>
       ELSE /\ events' = PublishStep(events, model_idx, "hallucination")
            /\ step_idx' = step_idx + 1
            /\ pc' = "loop"
            /\ UNCHANGED <<status, reason, status_assignments>>
    /\ UNCHANGED <<probe, config, active_orchestrators, stop_requested, run_conn_vars, page_cache,
                   run_vars, current_page_title, history, excluded_links,
                   consecutive_hallucinations, total_retries, page, available_concepts,
                   stale_page, metrics_files, stops, stop_reply, stop_waiting, stop_early, stop_midstep, llm_calls,
                   llm_after_cap, fatal_model>>
    /\ Fanout("run")

\* the gather of the step event of a valid choice is done: lines 428-434
AdvanceStep ==
    /\ RunResumes
    /\ pc = "advanced"
    /\ LoopCheck(current_page_title)
    /\ UNCHANGED <<probe, config, active_orchestrators, stop_requested, run_conn_vars,
                   events, page_cache, run_vars, current_page_title, history, excluded_links,
                   steps, consecutive_hallucinations, total_retries, page,
                   available_concepts, pending_step, stale_page, file_vars, stops,
                   stop_reply, stop_waiting, stop_early, stop_midstep, llm_calls,
                   llm_after_cap, fatal_model>>
    /\ Fanout("run")

\* the LLM call raises (a non-retryable API error, or the adapter's retries
\* are used up)
LLMError ==
    /\ RunResumes
    /\ pc = "llm"
    /\ RaiseInModel("Failed to get response from LLM")
    /\ UNCHANGED <<probe, config, active_orchestrators, run_conn_vars, page_cache, model_idx,
                   all_results, model_metrics, current_page_title, history,
                   excluded_links, steps, consecutive_hallucinations, total_retries,
                   step_idx, page, available_concepts, pending_step, stale_page, file_vars,
                   stops,
                   stop_reply, stop_waiting, stop_early, stop_midstep, llm_calls, llm_after_cap>>
    /\ Fanout("run")

(***************************************************************************)
(* _run_single_model_benchmark after the loop: lines 436-517, and the      *)
(* model_complete of run_benchmark (106-117).                              *)
(***************************************************************************)
\* total_clicks = max(0, len(steps) - 1)
TotalClicks(ss) == IF Len(ss) - 1 > 0 THEN Len(ss) - 1 ELSE 0

\* sum(1 for s in steps if s.get("next_concept_id") and
\*     s["next_concept_id"] not in s["mapping"])
Hallucinations(ss) ==
    CountTrue([i \in DOMAIN ss |-> /\ ss[i].next_concept_id \notin {NULL, ""}
                                   /\ ss[i].next_concept_id \notin DOMAIN ss[i].mapping])

\* path = [s["page_title"] for s in steps]
PathOf(ss) == [i \in 1..Len(ss) |-> ss[i].page_title]

\* the loop's exhaustion left without a status
StatusAfterLoopKept(st) == st

\* the loop ran out of step indexes (lines 436-438)
StatusAfterLoop(st) == IF st = "running" THEN "failed" ELSE st

\* the synthetic final step is added (lines 446-448)
NeedsFinalStep(st, ss) ==
    st = "success" /\ ss # <<>> /\ ss[Len(ss)].next_page_title # NULL

FinalizeModel ==
    /\ RunResumes
    /\ pc = "finalize"
    /\ LET status1 == StatusAfterLoop(status)
           reason1 == IF status = "running" THEN "Max steps reached" ELSE reason
           \* lines 441-443: status is no longer "running" here
           status2 == IF stop_requested /\ status1 = "running" THEN "stopped" ELSE status1
           reason2 == IF stop_requested /\ status1 = "running"
                      THEN "Benchmark stopped by user" ELSE reason1
           final_step == StepData(Len(steps), steps[Len(steps)].next_page_title, "final",
                                  NULL, EmptyMapping, FALSE, 0, NULL, "none")
           steps1 == IF NeedsFinalStep(status2, steps) THEN Append(steps, final_step)
                     ELSE steps
           metrics == [status |-> status2, reason |-> reason2, model |-> ModelName,
                       total_steps |-> TotalClicks(steps1),
                       hallucination_count |-> Hallucinations(steps1),
                       total_retries |-> total_retries,
                       path |-> PathOf(steps1)]
       IN /\ status' = status2
          /\ reason' = reason2
          /\ status_assignments' = status_assignments
                                   + (IF status = "running" THEN 1 ELSE 0)
          /\ steps' = steps1
          /\ step_files' = IF NeedsFinalStep(status2, steps)
                           THEN SaveModelStep(step_files, ModelName, Len(steps1) - 1,
                                              final_step)
                           ELSE step_files
          /\ metrics_files' = Put(metrics_files, SanitizeModelName(ModelName), metrics)
          /\ IF Suspends
             THEN \* model_final is awaited before the function returns (510)
                  /\ events' = Publish(events, "model_final", model_idx)
                  /\ pc' = "returning"
                  /\ UNCHANGED <<model_metrics, all_results, model_idx>>
             ELSE /\ model_metrics' = Append(model_metrics, metrics)
                  /\ all_results' = Put(all_results, ModelName, metrics)
                  /\ events' = Publish(Publish(events, "model_final", model_idx),
                                       "model_complete", model_idx)
                  /\ model_idx' = NextModelIdx(model_idx)
                  /\ pc' = "models"
    /\ UNCHANGED <<probe, config, active_orchestrators, stop_requested, run_conn_vars, page_cache,
                   run_error, summary, current_page_title, history, excluded_links,
                   consecutive_hallucinations, total_retries, step_idx, page,
                   available_concepts, pending_step, stale_page, stops, stop_reply,
                   stop_waiting, stop_early,
                   stop_midstep, llm_calls, llm_after_cap, fatal_model>>
    /\ Fanout("run")

\* the gather of model_final is done: _run_single_model_benchmark returns its
\* metrics, run_benchmark records them and publishes model_complete (105-117)
ModelComplete ==
    /\ RunResumes
    /\ pc = "returning"
    /\ LET metrics == metrics_files[SanitizeModelName(ModelName)]
       IN /\ model_metrics' = Append(model_metrics, metrics)
          /\ all_results' = Put(all_results, ModelName, metrics)
    /\ events' = Publish(events, "model_complete", model_idx)
    /\ model_idx' = NextModelIdx(model_idx)
    /\ pc' = "models"
    /\ UNCHANGED <<probe, config, active_orchestrators, stop_requested, run_conn_vars, page_cache,
                   run_error, summary, model_vars, file_vars, stops, stop_reply, stop_waiting, obs_vars>>
    /\ Fanout("run")

(***************************************************************************)
(* run_benchmark after the models (123-155) and the end of the task.       *)
(***************************************************************************)
SaveSummary ==
    /\ RunResumes
    /\ pc = "summary"
    /\ summary' = MakeSummary(all_results, run_error)
    /\ events' = Publish(events, "run_completed", -1)
    /\ pc' = "finishing"
    /\ UNCHANGED <<probe, config, active_orchestrators, stop_requested, run_conn_vars, page_cache,
                   model_idx, all_results, run_error, model_metrics, model_vars,
                   file_vars, stops, stop_reply, stop_waiting, obs_vars>>
    /\ Fanout("run")

\* the finally branch without its del
UnregisterKeeps(registry, run_id) == registry

\* del active_orchestrators[run_id] when the id is registered
Unregister(registry, run_id) == registry \ {run_id}

\* run_with_error_handling: the except branch broadcasts an error event when
\* run_benchmark raised; the finally branch removes the orchestrator
TaskEnd ==
    /\ RunResumes
    /\ pc = "finishing"
    /\ IF run_error # NULL /\ Suspends
       THEN \* the error event is awaited before the finally branch (230)
            /\ events' = Publish(events, "error", -1)
            /\ pc' = "cleanup"
            /\ UNCHANGED active_orchestrators
       ELSE /\ events' = IF run_error # NULL THEN Publish(events, "error", -1) ELSE events
            /\ active_orchestrators' = Unregister(active_orchestrators, RunId)
            /\ pc' = "done"
    /\ UNCHANGED <<probe, config, stop_requested, run_conn_vars, page_cache, run_vars, model_vars,
                   file_vars, stops, stop_reply, stop_waiting, obs_vars>>
    /\ Fanout("run")

\* the gather of the error event is done: the finally branch (235-238)
TaskCleanup ==
    /\ RunResumes
    /\ pc = "cleanup"
    /\ active_orchestrators' = Unregister(active_orchestrators, RunId)
    /\ pc' = "done"
    /\ UNCHANGED <<probe, config, stop_requested, run_conn_vars, events, page_cache,
                   run_vars, model_vars, file_vars, stops, stop_reply, stop_waiting, obs_vars>>
    /\ Fanout("run")

(***************************************************************************)
(* The other tasks: the stop endpoint and a subscriber.                    *)
(***************************************************************************)
\* stop_run(run_id) for a registered run: request_stop, then stop_requested
\* is broadcast and the call answers once the broadcast is over.  The handler
\* runs after the first step of the task that start_run created.  A second
\* request is followed in the runs of at most MaxStepsTwoStops step indexes
\* that no websocket subscribes to.
StopRun ==
    /\ RunId \in active_orchestrators
    /\ pc # "created"
    /\ stops < MaxStops
    /\ stops = 0 \/ (config.max_steps <= MaxStepsTwoStops /\ DOMAIN received = {})
    /\ stop_requested' = TRUE
    /\ events' = Publish(events, "stop_requested", -1)
    /\ stops' = stops + 1
    /\ IF active_connections # <<>>
       THEN \* the gather is awaited before the return (256)
            /\ stop_waiting' = stop_waiting + 1
            /\ UNCHANGED stop_reply
       ELSE /\ stop_reply' = "Stop request sent"
            /\ UNCHANGED stop_waiting
    /\ stop_early' = (stop_early \/ pc \in {"waiting", "cancelling", "settle", "entry"})
    /\ stop_midstep' = (stop_midstep \/ pc \in {"fetch", "fetching", "llm", "hallucination",
                                                 "notfound", "advanced"})
    /\ concurrent_publish' = (concurrent_publish \/ ~RunResumes)
    /\ UNCHANGED <<probe, config, pc, active_orchestrators, connection_ready, received, closed,
                   joined, wait_result, send_raised, page_cache, run_vars,
                   model_vars, file_vars, status_assignments, llm_calls,
                   llm_after_cap, fatal_model>>
    /\ Fanout("stop")

\* the gather of a stop_run call is done: its broadcast does the clean-up
\* and returns, and the call answers (109-112, 262)
StopReturn ==
    /\ ~Idle("stop")
    /\ Resumes("stop")
    /\ stop_reply' = "Stop request sent"
    /\ stop_waiting' = stop_waiting - 1
    /\ UNCHANGED <<probe, config, pc, active_orchestrators, stop_requested, run_conn_vars,
                   events, page_cache, run_vars, model_vars, file_vars, stops, obs_vars>>
    /\ Fanout("stop")

\* stop_run(run_id) for an id that is not registered: HTTP 404, nothing else
StopRunNotFound ==
    /\ RunId \notin active_orchestrators
    /\ stop_reply' = "Run not found or already completed"
    /\ UNCHANGED <<probe, config, pc, active_orchestrators, stop_requested, conn_vars, send_queue,
                   events, page_cache, run_vars, model_vars, file_vars, stops, stop_waiting, obs_vars>>

\* the gather of a broadcast of the run task is done where the task sleeps
\* next (model_start, lines 90-100): the broadcast does the clean-up and
\* returns.  Everywhere else the task runs on to its next step when the
\* broadcast returns, and the clean-up is part of that step.
BroadcastReturns ==
    /\ ~RunIdle
    /\ RunResumes
    /\ pc \in {"starting", "started"}
    /\ UNCHANGED <<probe, config, pc, active_orchestrators, stop_requested, run_conn_vars,
                   events, page_cache, run_vars, model_vars, file_vars, stops, stop_reply,
                   stop_waiting, obs_vars>>
    /\ Fanout("run")

\* the connections of the topic, as a set
Connected == {active_connections[i] : i \in DOMAIN active_connections}

\* websocket_endpoint -> ConnectionManager.connect: a websocket subscribes to
\* the run's topic.  The run id is made up by start_run, and the task it
\* created runs its first step before any handler that start_run's answer
\* can trigger.  At most MaxSockets(config) websockets subscribe, and none to
\* a run that was stopped twice (see StopRun).
Connect ==
    /\ pc # "created"
    /\ stops <= 1
    /\ \E i \in 1..MaxSockets(config) :
         LET w == Sockets[i]
         IN
         /\ w \notin DOMAIN received
         /\ \A j \in 1..(i - 1) : Sockets[j] \in DOMAIN received
         /\ active_connections' = Append(active_connections, w)
         /\ received' = Put(received, w, <<>>)
         /\ joined' = Put(joined, w, [at |-> Len(events), early |-> wait_result = NULL,
                                    timed_out |-> pc = "cancelling"])
    /\ connection_ready' = TRUE
    /\ UNCHANGED <<probe, config, pc, active_orchestrators, stop_requested, events, page_cache,
                   run_vars, model_vars, file_vars, stops, stop_reply, stop_waiting, obs_vars, gather_failed,
                   closed, wait_result, live_obs>>
    /\ UNCHANGED send_queue

\* websocket_endpoint on WebSocketDisconnect -> ConnectionManager.disconnect:
\* the client of a websocket has gone, also one on which a send has failed
\* and that the clean-up has not removed yet.  The call for a websocket that
\* the clean-up has removed changes nothing.
Disconnect ==
    /\ \E w \in DOMAIN received :
         /\ w \notin closed \/ w \in Connected
         /\ closed' = closed \cup {w}
         /\ active_connections' = Without(active_connections, {w})
    /\ UNCHANGED <<probe, config, pc, active_orchestrators, stop_requested, events, page_cache,
                   run_vars, model_vars, file_vars, stops, stop_reply, stop_waiting, obs_vars, connection_ready,
                   gather_failed, received, joined, wait_result, live_obs, send_queue>>

\* send_queue without its k-th entry
Dequeue(q, k) == SubSeq(q, 1, k - 1) \o SubSeq(q, k + 1, Len(q))

\* the send tasks that can finish next: the event loop starts the tasks in
\* the order of their creation, so the send_json calls on one websocket are
\* made, and carried out by it, in that order; the calls on different
\* websockets return in any order
CanFinish(q) ==
    {k \in DOMAIN q : /\ IsSend(q[k])
                      /\ \A j \in 1..(k - 1) : q[j].ws # q[k].ws}

\* a send_to_connection task finishes: conn.send_json(message) returns
SendJson ==
    /\ \E k \in CanFinish(send_queue) :
         LET t == send_queue[k]
         IN /\ t.ws \notin closed
            /\ received' = [received EXCEPT ![t.ws] = Append(@, t.ev)]
            /\ send_queue' = Dequeue(send_queue, k)
    /\ UNCHANGED <<probe, config, pc, active_orchestrators, stop_requested, events, page_cache,
                   run_vars, model_vars, file_vars, stops, stop_reply, stop_waiting, obs_vars,
                   active_connections, connection_ready, gather_failed,
                   closed, joined, wait_result, live_obs>>

\* a send_to_connection task finishes: conn.send_json(message) raises, the
\* websocket was closed, or it is lost now; the task returns the connection
\* to its gather (97-100)
SendJsonFails ==
    /\ \E k \in CanFinish(send_queue) :
         LET t == send_queue[k]
         IN /\ closed' = closed \cup {t.ws}
            /\ send_raised' = send_raised \cup {t.ws}
            /\ gather_failed' = [gather_failed EXCEPT ![t.by] = @ \cup {t.ws}]
            /\ send_queue' = Dequeue(send_queue, k)
    /\ UNCHANGED <<probe, config, pc, active_orchestrators, stop_requested, events, page_cache,
                   run_vars, model_vars, file_vars, stops, stop_reply, stop_waiting, obs_vars,
                   active_connections, connection_ready,
                   received, joined, wait_result, concurrent_publish>>

Next ==
    \/ TaskStart
    \/ WaitTimeout
    \/ WaitForConnection
    \/ RunBenchmarkEntry
    \/ ModelLoop
    \/ StartModel
    \/ StartFirstModel
    \/ LoopTop
    \/ FetchPage
    \/ FetchNotFound
    \/ FetchError
    \/ LLMReturn
    \/ LLMError
    \/ FinalizeModel
    \/ SaveSummary
    \/ TaskEnd
    \/ StopRun
    \/ StopRunNotFound

\* the run without a subscriber: every broadcast returns at once (86-91)
Spec == Init /\ [][Next]_vars

\* the steps of the run task after a gather in which it was suspended
NextResumed ==
    \/ RunStart
    \/ NotFoundStep
    \/ HallucinationStep
    \/ AdvanceStep
    \/ ModelComplete
    \/ TaskCleanup
    \/ BroadcastReturns
    \/ StopReturn

NextLive == Next \/ NextResumed \/ Connect \/ Disconnect \/ SendJson \/ SendJsonFails

\* the run with subscribers on its topic
SpecLive == InitLive /\ [][NextLive]_vars

\* every variable but probe
rest_vars == <<config, pc, active_orchestrators, stop_requested, conn_vars, send_queue,
               events, page_cache, run_vars, model_vars, file_vars, stops, stop_reply, stop_waiting,
               obs_vars>>

(***************************************************************************)
(* archive_manager.py: get_archive_details on the files of the run.        *)
(***************************************************************************)
\* the model directories of pair_0
ModelDirs == DOMAIN metrics_files \cup {k[1] : k \in DOMAIN step_files}

\* the step indexes with a file in the steps directory of a model
StepIndexes(dir) == {k[2] : k \in {f \in DOMAIN step_files : f[1] = dir}}

RECURSIVE SortedSteps(_, _)
\* for step_file in sorted(steps_path.iterdir()): the files by name
SortedSteps(dir, indexes) ==
    IF indexes = {} THEN <<>>
    ELSE LET least == CHOOSE i \in indexes : \A j \in indexes : i <= j
         IN <<step_files[<<dir, least>>]>> \o SortedSteps(dir, indexes \ {least})

\* _load_model_data(model_path)
LoadModelData(dir) ==
    [metrics |-> IF dir \in DOMAIN metrics_files THEN metrics_files[dir] ELSE NULL,
     steps |-> SortedSteps(dir, StepIndexes(dir))]

\* get_archive_details(run_id)["models"]
ArchiveDetails ==
    [m \in {ModelNameOfDir(d) : d \in ModelDirs} |->
        LoadModelData(CHOOSE d \in ModelDirs : ModelNameOfDir(d) = m)]

(***************************************************************************)
(* wiki_client.py: _preprocess_and_anonymize called on its own.  A text is *)
(* the sequence of its words and punctuation marks, so that a match of a   *)
(* title between word boundaries is a match of its words.                  *)
(***************************************************************************)
MaxLinks == 3
MaxWords == 2

LinkTitles == {"A", "Bb", "A Bb"}
LinkLists == UNION {[1..n -> LinkTitles] : n \in 0..MaxLinks}

\* the words of a link title
TitleWords(t) ==
    CASE t = "A Bb" -> <<"A", "Bb">>
      [] OTHER -> <<t>>

\* a section heading that _preprocess_and_anonymize cuts at
SectionHeading == "== References =="

ExtractWords == {"A", "a", "Bb", "x", SectionHeading}
Extracts == UNION {[1..n -> ExtractWords] : n \in 0..MaxWords}

RECURSIVE CutSections(_)
\* re.sub(rf"== {section} ==.*", "", extract, flags=re.DOTALL | re.IGNORECASE)
CutSections(text) ==
    IF text = <<>> THEN <<>>
    ELSE IF Head(text) = SectionHeading THEN <<>>
    ELSE <<Head(text)>> \o CutSections(Tail(text))

\* whether the words match the text at its start, letter case ignored
MatchesAt(text, words) ==
    /\ Len(words) <= Len(text)
    /\ \A i \in DOMAIN words : Lower(text[i]) = Lower(words[i])

\* f"[{concept_id}: {link_title}]"
ConceptToken(concept_id, link_title) ==
    <<"[", concept_id, ":">> \o TitleWords(link_title) \o <<"]">>

RECURSIVE PatternSub(_, _, _)
\* re.compile(rf"\b{re.escape(link_title)}\b", re.IGNORECASE).sub(token, text):
\* the matches from left to right, without overlap
PatternSub(text, concept_id, link_title) ==
    IF text = <<>> THEN <<>>
    ELSE IF MatchesAt(text, TitleWords(link_title))
         THEN ConceptToken(concept_id, link_title)
                  \o PatternSub(SubSeq(text, Len(TitleWords(link_title)) + 1, Len(text)),
                                concept_id, link_title)
         ELSE <<Head(text)>> \o PatternSub(Tail(text), concept_id, link_title)

RECURSIVE ApplyPatterns(_, _, _)
\* for concept_id, link_title, pattern in patterns: pattern.sub(...)
ApplyPatterns(text, sorted_links, i) ==
    IF i > Len(sorted_links) THEN text
    ELSE ApplyPatterns(PatternSub(text, ConceptId(i - 1), sorted_links[i]),
                       sorted_links, i + 1)

\* _preprocess_and_anonymize(extract, links): (anonymized_text, mapping)
PreprocessAndAnonymize(extract, links) ==
    [text |-> ApplyPatterns(CutSections(extract), SortByLenDesc(Dedup(links, {})), 1),
     mapping |-> AnonymizeMapping(links)]

AnonymizeCalls ==
    [kind : {"anonymize"}, extract : Extracts, links : LinkLists, at : {"call"},
     first : {NULL}, second : {NULL}]

InitAnonymize ==
    /\ config \in LiveConfigs
    /\ InitRun
    /\ probe \in AnonymizeCalls

\* the extract and the links of a page are anonymized
Anonymize ==
    /\ probe.kind = "anonymize"
    /\ probe.at = "call"
    /\ probe' = [probe EXCEPT !.at = "once",
                              !.first = PreprocessAndAnonymize(probe.extract, probe.links)]
    /\ UNCHANGED rest_vars

\* the anonymized text is anonymized again with the same links
AnonymizeAgain ==
    /\ probe.kind = "anonymize"
    /\ probe.at = "once"
    /\ probe' = [probe EXCEPT !.at = "twice",
                              !.second = PreprocessAndAnonymize(probe.first.text,
                                                                probe.links)]
    /\ UNCHANGED rest_vars

NextAnonymize == Anonymize \/ AnonymizeAgain

SpecAnonymize == InitAnonymize /\ [][NextAnonymize]_vars

(***************************************************************************)
(* langchain_llm_client.py: chat_completion_structured called on its own.  *)
(***************************************************************************)
MaxAdapterRetries == 2
MaxTokens == 2

\* str.upper() on the CONCEPT tokens that occur
Upper(tok) ==
    CASE tok = "concept_01" -> "CONCEPT_01"
      [] OTHER -> tok

\* re.findall(r"(?:chosen_concept_id\s*:\s*)?(CONCEPT_\d+)", content,
\* re.IGNORECASE) on a reply: the tokens in the order of the text
Tokens == {"CONCEPT_00", "CONCEPT_01", "concept_01", InvalidConcept}
TokenLists == UNION {[1..n -> Tokens] : n \in 0..MaxTokens}

\* for each match, whether the optional "chosen_concept_id:" stood before the
\* token; findall returns the group, so the result does not show it
PrefixLists == UNION {[1..n -> BOOLEAN] : n \in 0..MaxTokens}

\* a reply of the LLM: the chosen_concept_id of the JSON block when
\* parser.parse accepts the reply (NULL when it raises) and the CONCEPT
\* tokens of the text; a chosen_concept_id is itself a token of the text
Replies ==
    {r \in [chosen : {NULL, "CONCEPT_00", "CONCEPT_01", InvalidConcept},
            tokens : TokenLists, prefixed : PrefixLists] :
        /\ Len(r.prefixed) = Len(r.tokens)
        /\ r.chosen # NULL => \E i \in DOMAIN r.tokens : r.tokens[i] = r.chosen}

AvailableConcepts ==
    {EmptyMapping, AnonymizeMapping(WikiLinks("A")), AnonymizeMapping(WikiLinks("Bb"))}

\* _extract_data_regex, concept id: the first token whose upper case is a key
RECURSIVE ExtractDataRegex(_, _)
ExtractDataRegex(tokens, available_concepts_) ==
    IF tokens = <<>> THEN NULL
    ELSE IF Upper(Head(tokens)) \in DOMAIN available_concepts_
         THEN Upper(Head(tokens))
         ELSE ExtractDataRegex(Tail(tokens), available_concepts_)

\* content of the response when both parsing paths failed (line 262)
FailedContent == PARSING_FAILED

\* lines 198-270: the response built from a reply
ParseReply(r, available_concepts_) ==
    IF r.chosen # NULL /\ r.chosen \in DOMAIN available_concepts_
    THEN [content |-> r.chosen, parsing_method |-> "structured"]
    ELSE LET concept_id == ExtractDataRegex(r.tokens, available_concepts_)
         IN IF concept_id # NULL
            THEN [content |-> concept_id, parsing_method |-> "regex"]
            ELSE [content |-> FailedContent, parsing_method |-> "failed"]

\* every API error taken for retryable
MayRetryAlways(attempt, max_retries, is_retryable) == is_retryable

\* attempt < max_retries and is_retryable (line 188)
MayRetry(attempt, max_retries, is_retryable) == attempt < max_retries /\ is_retryable

AdapterCalls ==
    [kind : {"adapter"}, available_concepts : AvailableConcepts,
     max_retries : 0..MaxAdapterRetries, attempt : {0}, invocations : {0},
     at : {"invoke"}, last_error : {NULL}, reply : {NULL}, response : {NULL}]

InitAdapter ==
    /\ config \in LiveConfigs
    /\ InitRun
    /\ probe \in AdapterCalls

\* llm.ainvoke raises: retried after the backoff sleep, or re-raised as
\* ValueError
AdapterInvokeRaises ==
    /\ probe.kind = "adapter"
    /\ probe.at = "invoke"
    /\ \E is_retryable \in BOOLEAN :
         probe' = IF MayRetry(probe.attempt, probe.max_retries, is_retryable)
                  THEN [probe EXCEPT !.invocations = @ + 1, !.attempt = @ + 1,
                                     !.last_error = "retryable"]
                  ELSE [probe EXCEPT !.invocations = @ + 1, !.at = "raised",
                                     !.last_error = IF is_retryable THEN "retryable"
                                                    ELSE "not retryable"]
    /\ UNCHANGED rest_vars

\* llm.ainvoke returns a reply: the retry loop is left
AdapterInvokeReturns ==
    /\ probe.kind = "adapter"
    /\ probe.at = "invoke"
    /\ \E r \in Replies :
         probe' = [probe EXCEPT !.invocations = @ + 1, !.at = "parse", !.reply = r]
    /\ UNCHANGED rest_vars

\* the reply is parsed and the response returned
AdapterParse ==
    /\ probe.kind = "adapter"
    /\ probe.at = "parse"
    /\ probe' = [probe EXCEPT !.at = "returned",
                              !.response = ParseReply(probe.reply,
                                                      probe.available_concepts)]
    /\ UNCHANGED rest_vars

NextAdapter == AdapterInvokeRaises \/ AdapterInvokeReturns \/ AdapterParse

SpecAdapter == InitAdapter /\ [][NextAdapter]_vars

(***************************************************************************)
(* Another run of the same process.  main.py hands the one WikipediaClient *)
(* to every orchestrator, so the runs share the cached WikiPage objects.   *)
(***************************************************************************)
\* a mapping without some of its concepts
SubMappings(m) == {[c \in D |-> m[c]] : D \in SUBSET DOMAIN m}

\* the mappings a cached page can have: as fetched (FetchedLinks), without
\* the concepts that runs have removed from it (277-281)
CachedMappings(title) ==
    UNION {SubMappings(AnonymizeMapping(links)) : links \in FetchedLinks(title)}

\* the caches that earlier runs of the process can have left
SharedCaches ==
    UNION {{f \in [P -> UNION {CachedMappings(t) : t \in P}] :
               \A t \in P : f[t] \in CachedMappings(t)} : P \in SUBSET WikiPages}

\* start_run in a process that has run, or is running, other benchmarks
InitSharedCache ==
    /\ config \in SharedCacheConfigs
    /\ InitTask
    /\ page_cache \in SharedCaches
    /\ probe = NoProbe

\* fetch_page of this run has tested the cache (line 50), has not found the
\* page and is suspended in its requests (67-105); what other runs put in the
\* cache meanwhile is overwritten at line 118
FetchMiss ==
    /\ RunIdle
    /\ pc = "fetch"
    /\ ~CacheHit(page_cache, current_page_title)
    /\ pc' = "fetching"
    /\ UNCHANGED <<probe, config, active_orchestrators, stop_requested, conn_vars, send_queue,
                   events, page_cache, run_vars, model_vars, file_vars, stops, stop_reply,
                   stop_waiting, obs_vars>>

\* fetch_page of another run puts a page in the cache (117-118): a page that
\* is not cached, or a new WikiPage in the place of a cached one that the
\* fetch had not found when it tested the cache; the page this run holds is
\* then no longer the cached object
OtherRunFetch ==
    /\ \E t \in WikiPages :
         \E mapping \in {AnonymizeMapping(links) : links \in FetchedLinks(t)} :
            /\ page_cache' = Put(page_cache, t, mapping)
            /\ stale_page' = IF page = t /\ stale_page = <<>>
                             THEN <<page_cache[t]>> ELSE stale_page
    /\ UNCHANGED <<probe, config, pc, active_orchestrators, stop_requested, conn_vars, events,
                   run_vars, current_page_title, history, excluded_links, steps, status,
                   reason, consecutive_hallucinations, total_retries, step_idx, page,
                   available_concepts, pending_step, file_vars, stops, stop_reply,
                   stop_waiting, obs_vars>>
    /\ UNCHANGED send_queue

\* another run is back on a cached page after a page-not-found of its own
\* and reassigns page.mapping without the concept it had chosen (277-281)
OtherRunFilter ==
    /\ \E t \in DOMAIN page_cache :
         \E c \in DOMAIN page_cache[t] :
            page_cache' = Put(page_cache, t, FilterMapping(page_cache[t], <<c>>))
    /\ UNCHANGED <<probe, config, pc, active_orchestrators, stop_requested, conn_vars, events,
                   run_vars, model_vars, file_vars, stops, stop_reply, stop_waiting, obs_vars>>
    /\ UNCHANGED send_queue

NextOtherRun == FetchMiss \/ OtherRunFetch \/ OtherRunFilter

NextSharedCache == Next \/ NextOtherRun

\* the run next to other runs that use the same page cache
SpecSharedCache == InitSharedCache /\ [][NextSharedCache]_vars

\* the runs of the ping-pong configurations
SpecPingPong == InitPingPong /\ [][Next]_vars

(***************************************************************************)
(* Properties.                                                             *)
(***************************************************************************)
TerminalStatuses == {"success", "failed", "stopped"}

\* what a model can have answered when an answer was rejected
RejectedAnswers == {NULL, PARSING_FAILED, InvalidConcept} \cup {ConceptId(i) : i \in 0..3}

\* the reasons of the three terminal conditions whose text carries values
IsRetryCapReason(r) ==
    \E c \in RejectedAnswers : r = RetryCapReason(config.max_hallucination_retries, c)
IsLoopReason(r) ==
    \E t \in {"A", "Bb", "Ghost", "Z"}, n \in 0..HistoryMaxLen : r = LoopReason(t, n)
IsStartPageNotFoundReason(r) == r = "Start page not found: " \o config.start_page

\* the latest model run has returned and its locals are still in place
ModelReturned ==
    /\ pc \in {"models", "starting", "summary", "finishing", "done"}
    /\ model_idx > 0
    /\ fatal_model = -1

LastMetrics == model_metrics[Len(model_metrics)]
LastStep == steps[Len(steps)]

C1_State ==
    /\ step_idx <= config.max_steps
    /\ \A i \in DOMAIN steps :
          /\ steps[i].step = i - 1
          /\ steps[i].type # "final" => steps[i].step < config.max_steps
    /\ \A i \in DOMAIN model_metrics : model_metrics[i].status \in TerminalStatuses
    /\ ModelReturned => /\ status \in TerminalStatuses
                        /\ status_assignments = 1
                        /\ LastMetrics.status = status

C1_Exhausted ==
    (pc = "finalize" /\ status = "running")
        => /\ step_idx = config.max_steps
           /\ pc' # "finalize" => (status' = "failed" /\ reason' = "Max steps reached")

\* C1: the per-model loop runs at most max_steps iterations, each recorded
\* iteration (404, retry, advance) taking one step index; a model run that
\* returns has exactly one terminal status, assigned once; and when no other
\* terminal condition fired it is failed with reason 'Max steps reached'.
C1_BoundedLoopOneStatus == []C1_State /\ [][C1_Exhausted]_vars

C1_Witness ==
    /\ ModelReturned
    /\ config.max_steps >= 2
    /\ Len(steps) = config.max_steps
    /\ reason = "Max steps reached"

\* C2: every model run that ends with status success has a non-empty path
\* whose last element equals target_page, compared case-insensitively.
C2_SuccessPathEndsAtTarget ==
    \A i \in DOMAIN model_metrics :
        model_metrics[i].status = "success"
            => /\ model_metrics[i].path # <<>>
               /\ Lower(model_metrics[i].path[Len(model_metrics[i].path)])
                      = Lower(config.target_page)

\* C3: when start_page equals target_page (case-insensitive) and the start
\* page was fetched, the model run ends with status success, reason
\* 'Target reached', total_steps = 0 and path = [start_page].
C3_TrivialSuccess ==
    (ModelReturned /\ Lower(config.start_page) = Lower(config.target_page)
                   /\ history # <<>>)
        => /\ status = "success"
           /\ LastMetrics.reason = "Target reached"
           /\ LastMetrics.total_steps = 0
           /\ LastMetrics.path = <<config.start_page>>

\* C4: total_steps is the number of recorded steps that are valid advances
\* (carry a next_page_title); retries, 404 records and the synthetic final
\* step are not counted.
C4_TotalStepsCountsAdvances ==
    ModelReturned
        => LastMetrics.total_steps
               = CountTrue([i \in DOMAIN steps |-> steps[i].next_page_title # NULL])

\* C5: a stop accepted while a step is in flight lets that step complete and
\* be persisted, and the model run then ends with status stopped (unless the
\* step in flight ended the run by itself: target reached, start page not
\* found, retry cap, loop).
C5_StopMidStepEndsStopped ==
    (/\ ModelReturned
     /\ stop_midstep
     /\ reason # "Target reached"
     /\ ~IsStartPageNotFoundReason(reason)
     /\ ~IsRetryCapReason(reason)
     /\ ~IsLoopReason(reason))
        => /\ status = "stopped"
           /\ \A i \in DOMAIN steps :
                  step_files[<<SanitizeModelName(config.models[model_idx]), i - 1>>]
                      = steps[i]

\* C6: once a stop was accepted for the registered run, whenever after
\* start_run returned, the stop flag stays set for the rest of the run.
C6_StopFlagStaysSet ==
    (stops > 0 /\ RunId \in active_orchestrators) => stop_requested

\* C7: in a run where a model ended with status stopped, model_stopped was
\* published for that model and run_stopped was published after it.
C7_ModelStoppedThenRunStopped ==
    pc = "done"
        => \A i \in DOMAIN model_metrics :
               model_metrics[i].status = "stopped"
                   => \E j, k \in DOMAIN events :
                          /\ j < k
                          /\ events[j] = Event("model_stopped", i - 1, "")
                          /\ events[k].type = "run_stopped"

\* C8: after an unrecoverable error in model m, m is reported with status
\* failed, a reason and its path; no later model is started; an error event
\* is published; the summary is written.
C8_FatalErrorReported ==
    (pc = "done" /\ fatal_model # -1)
        => /\ Len(model_metrics) > fatal_model
           /\ model_metrics[fatal_model + 1].status = "failed"
           /\ model_metrics[fatal_model + 1].reason # ""
           /\ \A j \in DOMAIN events :
                  events[j].type = "model_start" => events[j].model <= fatal_model
           /\ \E j \in DOMAIN events : events[j].type = "error"
           /\ summary # NULL

\* C9: with max_hallucination_retries >= 1, consecutive_hallucinations never
\* exceeds max_hallucination_retries, and when it equals it the model run is
\* failed and no further LLM call is issued.
C9_RetryCap ==
    config.max_hallucination_retries >= 1
        => /\ consecutive_hallucinations <= config.max_hallucination_retries
           /\ consecutive_hallucinations = config.max_hallucination_retries
                  => /\ status = "failed"
                     /\ IsRetryCapReason(reason)
                     /\ pc \notin {"loop", "fetch", "llm"}
           /\ ~llm_after_cap

C9_Witness ==
    /\ config.max_hallucination_retries >= 2
    /\ consecutive_hallucinations = config.max_hallucination_retries
    /\ status = "failed"
    /\ llm_calls = config.max_hallucination_retries

\* the model's answers on the page it ended on were all hallucinations
EndedOnHallucinations == ModelReturned /\ steps # <<>> /\ LastStep.is_retry

\* C10 as stated: if every response on the current page is a hallucination,
\* the run ends failed with 'Max hallucination retries' after exactly
\* max_hallucination_retries (a positive number) retry steps, total_retries
\* being that number.
C10_AlwaysEndsAtRetryCap ==
    (/\ EndedOnHallucinations
     /\ total_retries = LastStep.retry_number
     /\ config.max_hallucination_retries >= 1)
        => /\ status = "failed"
           /\ IsRetryCapReason(reason)
           /\ LastStep.retry_number = config.max_hallucination_retries
           /\ total_retries = config.max_hallucination_retries

\* C10 amended: if every response on the current page is a hallucination, no
\* stop ends the run, max_hallucination_retries >= 1 and at least that many
\* step indexes are left from the first of these responses, the run ends
\* failed with 'Max hallucination retries' after exactly
\* max_hallucination_retries consecutive retry steps, and total_retries is
\* that number when no earlier response was a hallucination; with fewer
\* step indexes left it ends failed with 'Max steps reached'.
C10_EndsAtRetryCapIfStepsRemain ==
    (/\ EndedOnHallucinations
     /\ status # "stopped"
     /\ config.max_hallucination_retries >= 1)
        => LET first == LastStep.step - LastStep.retry_number + 1
           IN IF first + config.max_hallucination_retries <= config.max_steps
              THEN /\ status = "failed"
                   /\ IsRetryCapReason(reason)
                   /\ LastStep.retry_number = config.max_hallucination_retries
                   /\ \A i \in DOMAIN steps :
                          i > Len(steps) - config.max_hallucination_retries
                              => steps[i].is_retry /\ steps[i].page_title = LastStep.page_title
                   /\ total_retries = CountTrue([i \in DOMAIN steps |-> steps[i].is_retry])
                   /\ total_retries = LastStep.retry_number
                          => total_retries = config.max_hallucination_retries
              ELSE /\ status = "failed"
                   /\ reason = "Max steps reached"
                   /\ LastStep.retry_number < config.max_hallucination_retries

C10_Witness ==
    /\ EndedOnHallucinations
    /\ config.max_hallucination_retries >= 2
    /\ page_cache[page] = EmptyMapping
    /\ LastStep.retry_number = config.max_hallucination_retries
    /\ IsRetryCapReason(reason)

\* step i records a page-not-found that follows the valid choice of step i - 1
NotFoundAfterChoice(i) ==
    /\ i \in DOMAIN steps
    /\ i > 1
    /\ steps[i].type = "not_found"
    /\ steps[i - 1].next_page_title = steps[i].page_title

\* C11: when a valid choice of concept c on page P leads to a title whose
\* fetch raises page-not-found, a step event marked 404 is published, c is in
\* excluded_links[P], the next iteration fetches P again, and the mapping
\* passed to the model and recorded in the steps on P no longer contains c.
C11_NotFoundExcludesChoice ==
    \A i \in DOMAIN steps :
        NotFoundAfterChoice(i)
            => LET P == steps[i - 1].page_title
                   c == steps[i - 1].next_concept_id
               IN /\ pc \in {"loop", "fetch", "llm", "finalize"}
                        => CountTrue([j \in DOMAIN events |->
                                         events[j] = Event("step", model_idx, "404")])
                             = CountTrue([j \in DOMAIN steps |->
                                             steps[j].type = "not_found"])
                  /\ P \in DOMAIN excluded_links
                  /\ \E k \in DOMAIN excluded_links[P] : excluded_links[P][k] = c
                  /\ (i = Len(steps) /\ pc \in {"loop", "fetch"}) => current_page_title = P
                  /\ (i = Len(steps) /\ pc = "llm")
                        => (page = P /\ c \notin DOMAIN available_concepts)
                  /\ i < Len(steps) => (steps[i + 1].page_title = P
                                        /\ steps[i + 1].type = "llm")
                  /\ \A j \in DOMAIN steps :
                        (j > i /\ steps[j].page_title = P) => c \notin DOMAIN steps[j].mapping

C11_Witness ==
    \E i \in DOMAIN steps :
        /\ NotFoundAfterChoice(i)
        /\ i < Len(steps)
        /\ steps[i + 1].type = "llm"
        /\ steps[i + 1].page_title = steps[i - 1].page_title
        /\ steps[i + 1].mapping # EmptyMapping
        /\ steps[i - 1].next_concept_id \notin DOMAIN steps[i + 1].mapping
        /\ steps[i - 1].next_concept_id \in DOMAIN steps[i - 1].mapping

\* C12: if the fetch of start_page raises page-not-found while history is
\* empty, the model run ends failed with the reason 'Start page not found:
\* <start_page>' without any LLM call, and, when no stop and no fatal error
\* ends the run, the remaining models of the run are still processed.
C12_StartPageNotFound ==
    /\ (ModelReturned /\ history = <<>> /\ steps # <<>> /\ steps[1].type = "not_found")
          => /\ status = "failed"
             /\ reason = "Start page not found: " \o config.start_page
             /\ llm_calls = 0
             /\ Len(steps) = 1
             /\ LastMetrics.status = "failed"
             /\ LastMetrics.reason = reason
    /\ (/\ pc = "done"
        /\ stops = 0
        /\ run_error = NULL
        /\ model_metrics # <<>>
        /\ IsStartPageNotFoundReason(model_metrics[1].reason))
          => /\ Len(model_metrics) = NumModels
             /\ \A m \in 0..(NumModels - 1) :
                    \E j \in DOMAIN events : events[j] = Event("model_start", m, "")

C12_Witness ==
    /\ pc = "done"
    /\ NumModels = 2
    /\ Len(model_metrics) = 2
    /\ model_metrics[1].reason = "Start page not found: Ghost"
    /\ model_metrics[2].status = "failed"
    /\ history = <<>>
    /\ llm_calls = 0

\* C15: for every recorded non-hallucination step that has a
\* next_page_title, next_concept_id is a key of that step's mapping,
\* mapping[next_concept_id] equals next_page_title, and next_page_title is
\* the title fetched in the following iteration.
C15_ValidChoiceRecorded ==
    \A i \in DOMAIN steps :
        (~steps[i].is_retry /\ steps[i].next_page_title # NULL)
            => /\ steps[i].next_concept_id \in DOMAIN steps[i].mapping
               /\ steps[i].mapping[steps[i].next_concept_id] = steps[i].next_page_title
               /\ i < Len(steps) => steps[i + 1].page_title = steps[i].next_page_title
               /\ (i = Len(steps) /\ pc \in {"loop", "fetch"})
                     => current_page_title = steps[i].next_page_title
               /\ (i = Len(steps) /\ pc = "llm") => page = steps[i].next_page_title

C15_Witness ==
    /\ Len(steps) >= 2
    /\ ~steps[1].is_retry
    /\ steps[1].next_page_title = "Bb"
    /\ steps[2].type = "llm"
    /\ steps[2].page_title = "Bb"

\* the first n recorded steps are valid advances going A, Bb, A, Bb, ...
PingPong(n) ==
    /\ Len(steps) >= n
    /\ \A i \in 1..n :
           /\ steps[i].type = "llm"
           /\ ~steps[i].is_retry
           /\ steps[i].page_title = (IF i % 2 = 1 THEN "A" ELSE "Bb")
           /\ steps[i].next_page_title = (IF i % 2 = 1 THEN "Bb" ELSE "A")

\* C13: with max_loops = 3, a model that by valid choices only goes
\* A -> Bb -> A -> Bb -> A is ended there: no further step is recorded, and
\* the model run (unless a stop ends it) is failed with a reason naming A and
\* the visit count 3; it does not continue until max_steps.
C13_PingPongEndsAtThirdVisit ==
    (config.max_loops = 3 /\ PingPong(4))
        => /\ Len(steps) = 4
           /\ (ModelReturned /\ status # "stopped")
                 => (status = "failed" /\ reason = "Loop detected: A visited 3 times")

\* C14: the mapping stored in a step record that involved an adapter call is
\* exactly the available_concepts passed to the adapter for that call.
C14_RecordedMappingIsPassed ==
    (steps # <<>> /\ LastStep.type = "llm" /\ pc # "llm" /\ fatal_model = -1)
        => LastStep.mapping = available_concepts

\* a is an initial part of b
IsPrefix(a, b) == Len(a) <= Len(b) /\ a = SubSeq(b, 1, Len(a))

\* the events published on the topic since websocket w subscribed
PublishedSince(w) == SubSeq(events, joined[w].at + 1, Len(events))

\* C16: what a subscriber has received is, in publish order and without a
\* gap, an initial part of what was published since it subscribed; two
\* subscribers that subscribed at the same point of the publish order have
\* received the same sequence up to the sends still in progress, and exactly
\* the same once no broadcast is in progress; also when stop_run broadcasts
\* stop_requested while a broadcast of the run task is in progress.
C16_DeliveryInPublishOrder ==
    /\ \A w \in DOMAIN received : IsPrefix(received[w], PublishedSince(w))
    /\ \A w, v \in DOMAIN received :
          joined[w].at = joined[v].at
              => /\ IsPrefix(received[w], received[v]) \/ IsPrefix(received[v], received[w])
                 /\ (send_queue = <<>> /\ closed \cap {w, v} = {})
                       => received[w] = received[v]

C16_Witness ==
    /\ concurrent_publish
    /\ send_queue = <<>>
    /\ closed = {}
    /\ DOMAIN received = {"ws1", "ws2"}
    /\ joined["ws1"].at = joined["ws2"].at
    /\ received["ws1"] = received["ws2"]
    /\ \E i, j \in DOMAIN received["ws1"] :
          /\ i < j
          /\ j < Len(received["ws1"])
          /\ received["ws1"][i].type = "run_start"
          /\ received["ws1"][j].type = "stop_requested"

\* a send_to_connection task returned its connection as failed
SendFailedStep == \E by \in Publishers : gather_failed'[by] \ gather_failed[by] # {}

C17_State ==
    /\ send_queue = <<>>
          => /\ closed \cap Connected = {}
             /\ \A w \in DOMAIN received :
                    w \notin closed => (w \in Connected /\ received[w] = PublishedSince(w))
    /\ run_error # NULL => fatal_model # -1

C17_Step ==
    /\ SendFailedStep
          => UNCHANGED <<pc, events, stop_requested, page_cache, run_vars, model_vars,
                         file_vars>>
    /\ \A w \in Connected : w \notin closed' => w \in Connected'

\* C17: when the delivery of an event to one subscriber fails, that
\* subscriber is off the topic once the broadcasts in progress have done
\* their clean-up and returned; no step takes a subscriber off the topic on
\* which no send has failed and whose client has not disconnected, and such
\* a subscriber has received every event published since it subscribed once
\* no broadcast is in progress; the failure changes nothing in the run task:
\* no variable of the run or of the model run, no event, no run error.
C17_FailedDeliveryIsolated == []C17_State /\ [][C17_Step]_vars

C17_Witness ==
    /\ send_queue = <<>>
    /\ send_raised = {"ws1"}
    /\ "ws1" \notin Connected
    /\ "ws2" \in Connected
    /\ joined["ws2"].at <= joined["ws1"].at + Len(received["ws1"])
    /\ Len(received["ws2"]) >= Len(received["ws1"]) + 3
    /\ pc = "done"
    /\ run_error = NULL

\* C18: a subscriber that subscribes after start_run returned and before
\* the timeout of wait_for_connection has elapsed has received, once no
\* send is in progress, every event published on the topic since the run
\* was created, run_created included.
C18_LateSubscriberReceivesAll ==
    send_queue = <<>>
        => \A w \in DOMAIN received :
               (joined[w].early /\ ~joined[w].timed_out /\ w \notin closed)
                   => received[w] = events

Positions(type, i) ==
    {j \in DOMAIN events : events[j].type = type /\ events[j].model = i}

\* C20: the models of a run are processed one after the other in the order of
\* the configuration: model_start(i) and model_complete(i) are published at
\* most once, model_start(i) comes before every step and hallucination event
\* of model i, these come before model_complete(i), model_complete(i) comes
\* before model_start(i+1), and an LLM call is in flight only between the
\* model_start and the model_complete of its own model, after every earlier
\* model has completed.
C20_ModelsSequential ==
    /\ \A i \in 0..(NumModels - 1) :
          /\ Cardinality(Positions("model_start", i)) <= 1
          /\ Cardinality(Positions("model_complete", i)) <= 1
          /\ \A j \in Positions("step", i) \cup Positions("hallucination", i) :
                /\ \E s \in Positions("model_start", i) : s < j
                /\ \A c \in Positions("model_complete", i) : j < c
          /\ \A c \in Positions("model_complete", i) :
                \E s \in Positions("model_start", i) : s < c
          /\ i > 0 => \A s \in Positions("model_start", i) :
                          \E c \in Positions("model_complete", i - 1) : c < s
    /\ pc = "llm"
          => /\ Positions("model_start", model_idx) # {}
             /\ Positions("model_complete", model_idx) = {}
             /\ \A i \in 0..(model_idx - 1) : Positions("model_complete", i) # {}
             /\ \A i \in (model_idx + 1)..(NumModels - 1) :
                    Positions("model_start", i) = {}

C20_Witness ==
    /\ NumModels = 2
    /\ pc = "done"
    /\ \E s0 \in Positions("model_start", 0), j0 \in Positions("step", 0),
          c0 \in Positions("model_complete", 0), s1 \in Positions("model_start", 1),
          h1 \in Positions("hallucination", 1), j1 \in Positions("step", 1),
          c1 \in Positions("model_complete", 1) :
          /\ s0 < j0 /\ j0 < c0 /\ c0 < s1 /\ s1 < h1 /\ h1 < j1 /\ j1 < c1

\* C21: every event published on the topic of the run carries a timestamp
\* (and the timestamps do not decrease along the publish order).
C21_EveryEventTimestamped ==
    \A j \in DOMAIN events : Timestamped(events[j])

\* C30: every hallucination event, the one of the step that reaches
\* max_hallucination_retries included, is followed by the step event of the
\* same model that reports the rejected answer.
C30_HallucinationAlsoPublishesStep ==
    \A j \in DOMAIN events :
        events[j].type = "hallucination"
            => /\ j < Len(events)
               /\ events[j + 1] = Event("step", events[j].model, "hallucination")

C22_State == (pc # "done") <=> (RunId \in active_orchestrators)

C22_Step ==
    (RunId \notin active_orchestrators /\ stop_reply' # stop_reply)
        => /\ stop_reply' = "Run not found or already completed"
           /\ UNCHANGED <<stop_requested, events, active_orchestrators, pc>>

\* C22: the run id is in active_orchestrators from the return of start_run
\* until the task of the run ends, and is out of it once the task has ended,
\* whether the run completed, was stopped or failed; stop_run for an id that
\* is not registered answers 404 and changes no stop flag.
C22_RegistryLifetime == []C22_State /\ [][C22_Step]_vars

C22_Witness ==
    /\ pc = "done"
    /\ RunId \notin active_orchestrators
    /\ run_error = NULL
    /\ stop_reply = "Run not found or already completed"
    /\ ~stop_requested

\* the response of an adapter call that returned
Returned == probe.kind = "adapter" /\ probe.at = "returned"

\* C23: the response has parsing_method structured when the reply parses and
\* its chosen_concept_id is a key of available_concepts, otherwise regex when
\* a CONCEPT token of the reply is a key, otherwise failed; its concept id is
\* a key of available_concepts exactly when the method is structured or
\* regex, and is null when the method is failed.
C23_ParsingMethodAndConcept ==
    Returned =>
        LET r == probe.reply
            keys == DOMAIN probe.available_concepts
            structured == r.chosen # NULL /\ r.chosen \in keys
            regex == \E i \in DOMAIN r.tokens : Upper(r.tokens[i]) \in keys
        IN /\ probe.response.parsing_method =
                  (IF structured THEN "structured"
                   ELSE IF regex THEN "regex" ELSE "failed")
           /\ (probe.response.content \in keys)
                  <=> (probe.response.parsing_method \in {"structured", "regex"})
           /\ probe.response.parsing_method = "failed" => probe.response.content = NULL

C24_State ==
    probe.kind = "adapter"
        => /\ probe.invocations <= probe.max_retries + 1
           /\ probe.last_error = "not retryable" => probe.at = "raised"
           /\ probe.at = "raised" => probe.reply = NULL

C24_Step ==
    (probe.kind = "adapter" /\ probe'.invocations # probe.invocations)
        => /\ probe'.invocations = probe.invocations + 1
           /\ probe.reply = NULL
           /\ probe.invocations > 0
                 => (probe.last_error = "retryable" /\ probe.invocations <= probe.max_retries)

\* C24: one call invokes the LLM at most max_retries + 1 times; an invocation
\* after the first follows a retryable API error and fewer than max_retries
\* retries; a non-retryable API error is raised right after the failing
\* invocation; after an invocation that returned a reply there is no other
\* invocation, however the reply parses.
C24_BoundedInvocations == []C24_State /\ [][C24_Step]_vars

C24_Witness ==
    /\ Returned
    /\ probe.max_retries = MaxAdapterRetries
    /\ probe.invocations = MaxAdapterRetries + 1
    /\ probe.response.parsing_method = "failed"

\* the unique titles of a link list
UniqueTitles(links) == {links[i] : i \in DOMAIN links}

\* the concept ids that the mapping gives to a title
ConceptsOf(mapping, title) == {c \in DOMAIN mapping : mapping[c] = title}

\* C25: the mapping of an anonymization holds exactly one concept id for each
\* unique title of the link list and nothing else, so that the concept looked
\* up for a title resolves to that title.
C25_OneConceptPerTitle ==
    (probe.kind = "anonymize" /\ probe.at # "call")
        => LET mapping == probe.first.mapping
           IN /\ \A t \in UniqueTitles(probe.links) :
                    /\ Cardinality(ConceptsOf(mapping, t)) = 1
                    /\ mapping[CHOOSE c \in ConceptsOf(mapping, t) : TRUE] = t
              /\ Cardinality(DOMAIN mapping) = Cardinality(UniqueTitles(probe.links))
              /\ \A c \in DOMAIN mapping : mapping[c] \in UniqueTitles(probe.links)

C25_Witness ==
    /\ probe.kind = "anonymize"
    /\ probe.at = "once"
    /\ probe.links = <<"Bb", "A Bb", "Bb">>
    /\ probe.first.mapping = [CONCEPT_00 |-> "A Bb", CONCEPT_01 |-> "Bb"]

\* C26: anonymizing an anonymized extract with the same links gives the same
\* text.
C26_AnonymizeIdempotent ==
    (probe.kind = "anonymize" /\ probe.at = "twice")
        => probe.second.text = probe.first.text

\* C27: a step file or a metrics file that has been written is never written
\* again: every write creates a new file and leaves the files written before
\* as they are, within a model run and from one model of the run to the next.
C27_FilesWrittenOnce ==
    [][/\ \A k \in DOMAIN step_files :
             k \in DOMAIN step_files' /\ step_files'[k] = step_files[k]
       /\ \A k \in DOMAIN metrics_files :
             k \in DOMAIN metrics_files' /\ metrics_files'[k] = metrics_files[k]]_vars

\* C28: once the run has ended without error, get_archive_details gives, for
\* each model of the run under its model identifier, the metrics that were
\* persisted for it, and for the last model the recorded steps in the order
\* of their indexes.
C28_ArchiveDetailsGivePersisted ==
    (pc = "done" /\ run_error = NULL /\ model_metrics # <<>>)
        => /\ \A i \in DOMAIN model_metrics :
                 /\ model_metrics[i].model \in DOMAIN ArchiveDetails
                 /\ ArchiveDetails[model_metrics[i].model].metrics = model_metrics[i]
           /\ ArchiveDetails[model_metrics[Len(model_metrics)].model].steps = steps

C29_State ==
    /\ Len(history) <= 5
    /\ Cardinality({history[i] : i \in DOMAIN history}) <= 5

C29_Step ==
    (history' # history /\ history' # <<>>)
        => LET p == history'[Len(history')]
           IN history' = IF Len(history) = 5 THEN Append(Tail(history), p)
                         ELSE Append(history, p)

\* C29: the history window of a model run never holds more than 5 pages, and
\* a page appended to a full window takes the place of the oldest one, the
\* other pages keeping their order.
C29_HistoryWindow == []C29_State /\ [][C29_Step]_vars

C29_Witness ==
    /\ pc = "llm"
    /\ step_idx = 5
    /\ history = <<"Bb", "A", "Bb", "A", "Bb">>

\* C31: when the regex fallback decides and the reply holds a token that is
\* a key of available_concepts and stands after "chosen_concept_id:", the
\* returned concept is such a prefixed token, even if an unprefixed key
\* stands earlier in the reply.
C31_PrefixedTokenPreferred ==
    (Returned /\ probe.response.parsing_method = "regex")
        => LET r == probe.reply
               keys == DOMAIN probe.available_concepts
               preferred == {Upper(r.tokens[i]) :
                                i \in {j \in DOMAIN r.tokens :
                                          r.prefixed[j] /\ Upper(r.tokens[j]) \in keys}}
           IN preferred # {} => probe.response.content \in preferred

\* C32: the concept id of a unique link title is CONCEPT_<k>, k being the
\* index of the title among the links in the order of their first occurrence.
C32_ConceptIdFollowsFirstOccurrence ==
    (probe.kind = "anonymize" /\ probe.at # "call")
        => LET unique_links == Dedup(probe.links, {})
           IN \A k \in DOMAIN unique_links :
                 /\ ConceptId(k - 1) \in DOMAIN probe.first.mapping
                 /\ probe.first.mapping[ConceptId(k - 1)] = unique_links[k]

\* a fetch_page call of the run ends in this step, with a page or an exception
FetchEnds == pc = "fetch" /\ pc' # "fetch"
FetchSucceeds == FetchEnds /\ (pc' = "llm" \/ status' = "success")

C33_Step ==
    /\ DOMAIN page_cache \subseteq DOMAIN page_cache'
    /\ (FetchEnds /\ current_page_title \in DOMAIN page_cache)
          => /\ FetchSucceeds
             /\ page' = current_page_title
             /\ pc' = "llm"
                   => \A c \in DOMAIN available_concepts' :
                          /\ c \in DOMAIN page_cache[current_page_title]
                          /\ available_concepts'[c] = page_cache[current_page_title][c]
    /\ (FetchEnds /\ ~FetchSucceeds) => page_cache' = page_cache

\* C33: no title ever leaves the page cache; a fetch of a cached title gives
\* the cached page and cannot fail, no request being made; a fetch that
\* fails, with page-not-found or another error, leaves the cache as it was.
C33_CacheOnlyGrows == [][C33_Step]_vars

C33_Witness ==
    /\ pc = "llm"
    /\ step_idx = 2
    /\ page = "A"
    /\ steps[2].type = "not_found"
    /\ DOMAIN page_cache = {"A"}
    /\ available_concepts = [CONCEPT_01 |-> "Bb"]

\* C34: filtering the mapping for a model run leaves the mapping of a cached
\* page as fetch_page cached it, so that every concept of the page is still
\* offered to the other models and runs.
C34_CachedMappingUntouched ==
    [][\A t \in DOMAIN page_cache : page_cache'[t] = page_cache[t]]_vars

\* C35: the history gets one entry per distinct visit: the fetch that follows
\* a hallucination step or a page-not-found step (the page is fetched again,
\* the model has not moved onto it) leaves the history as it is.
C35_RefetchAddsNoEntry ==
    [][(/\ pc = "fetch"
        /\ steps # <<>>
        /\ (LastStep.is_retry \/ LastStep.type = "not_found"))
          => history' = history]_vars

\* the newest step is a valid advance onto the target page at the last step
\* index of the run
AdvancedOntoTargetAtLastIndex ==
    /\ steps # <<>>
    /\ LastStep.type = "llm"
    /\ ~LastStep.is_retry
    /\ Lower(LastStep.next_page_title) = Lower(config.target_page)
    /\ LastStep.step = config.max_steps - 1

C36_State ==
    (ModelReturned /\ AdvancedOntoTargetAtLastIndex)
        => /\ status = "failed"
           /\ reason = "Max steps reached"
           /\ LastMetrics.status = "failed"

C36_Step ==
    (status' = "success" /\ status # "success")
        => /\ pc = "fetch"
           /\ step_idx < config.max_steps
           /\ Lower(current_page_title) = Lower(config.target_page)
           /\ page' = current_page_title
           /\ current_page_title \in DOMAIN page_cache'

\* C36: success is assigned only by a loop iteration with a step index below
\* max_steps whose fetch succeeded on a page that is the target; so a run
\* whose valid advance onto the target is made at step index max_steps - 1
\* ends failed with reason 'Max steps reached'.
C36_SuccessOnlyInsideLoop == []C36_State /\ [][C36_Step]_vars

C36_Witness ==
    /\ ModelReturned
    /\ AdvancedOntoTargetAtLastIndex
    /\ config.max_steps = 2
    /\ LastStep.next_page_title = "Bb"
    /\ reason = "Max steps reached"

\* positions of the terminal events of the run
TerminalEvents == {i \in DOMAIN events : events[i].type \in {"run_completed", "error"}}

\* C37: a run publishes exactly one terminal event, run_completed or error,
\* never both and never twice, and no other event of the run after it.
C37_OneTerminalEvent ==
    /\ Cardinality(TerminalEvents) <= 1
    /\ \A i \in TerminalEvents : i = Len(events)
    /\ pc = "done" => TerminalEvents # {}

\* C38: with the structured adapter a recorded step is a hallucination exactly
\* when the adapter returned the parsing method failed; a concept id obtained
\* by the structured or the regex parsing is a key of the recorded mapping
\* and the step is a valid advance onto its page.
C38_HallucinationIffParsingFailed ==
    config.use_langchain =>
        \A i \in DOMAIN steps :
            steps[i].type = "llm" =>
                /\ steps[i].is_retry <=> steps[i].parsing_method = "failed"
                /\ steps[i].parsing_method \in {"structured", "regex"} =>
                      /\ steps[i].next_concept_id \in DOMAIN steps[i].mapping
                      /\ steps[i].next_page_title
                            = steps[i].mapping[steps[i].next_concept_id]

\* recorded steps with is_retry true
RetrySteps(ss) == CountTrue([i \in DOMAIN ss |-> ss[i].is_retry])

\* C39: in the metrics of every model run, with either adapter,
\* hallucination_count equals total_retries and both equal the number of
\* recorded steps with is_retry true, the hallucinations without an extracted
\* concept id included.
C39_HallucinationCountIsRetries ==
    \A i \in DOMAIN model_metrics :
        /\ model_metrics[i].hallucination_count = model_metrics[i].total_retries
        /\ (i = Len(model_metrics) /\ ModelReturned)
              => model_metrics[i].total_retries = RetrySteps(steps)

====
